---- MODULE Spec2Model ----
(***************************************************************************)
(* Benteng edge trust gateway: the verify / decrypt handlers of edge-api,  *)
(* the dual-control KMS of sdk-core and the primitives they are built on.  *)
(*                                                                         *)
(* Byte strings are TLA+ strings; concatenation of bytes is \o.  Hashes,   *)
(* key derivations, signatures and ciphertexts are symbolic terms written  *)
(* as strings, so that two of them are equal exactly when they were        *)
(* computed from the same inputs.  Time is the wall clock in milliseconds. *)
(***************************************************************************)
EXTENDS Integers, Sequences, FiniteSets, TLC

VARIABLES
    now,               \* SystemTime::now(), ms since the epoch
    rate_limits,       \* AppState.rate_limits : rate key -> RateLimitBucket
    replay_cache,      \* AppState.replay_cache : SHA256(sig) -> first seen
    policy_cache,      \* AppState.policy_cache : policy key -> Policy
    tlog,              \* AppState.transparency_log entries
    resp,              \* the response to the latest request
    nreq,              \* number of calls of the gateway and the KMS so far
    config,            \* DualControlKms.config
    cache,             \* DualControlKms.cache : cache key -> CachedKey
    hsm_a_keys,        \* DualControlKms.hsm_a_keys : kid -> HsmKeyPair
    quorum_approvals,  \* DualControlKms.quorum_approvals : rid -> approvers
    kms_result,        \* the Result of the latest KMS call
    kms_calls,         \* calls of dual_decrypt (dd), get_k1 (a) and get_k2 (b) so far
    kms_buffers,       \* the K1, K2 and K1||K2 buffers of the latest dual_decrypt at its return
    overflow_checks,   \* the build's overflow-checks setting (debug: TRUE)
    tree,              \* TransparencyLog.tree : Option<MerkleNode>
    checkpoints,       \* TransparencyLog.checkpoints
    log_result,        \* what the latest call on the log returned
    dd_tasks,          \* the dual_decrypt calls in flight, one per task
    sealed,            \* the envelope the SDK operations work on
    ops_result,        \* what the latest SDK operation on it returned
    gw_tasks,          \* the verify / decrypt handlers in flight, one per task
    current_bundle,    \* PolicyDistributor.current_bundle : Option<SignedPolicyBundle>
    next_bundle,       \* PolicyDistributor.next_bundle : Option<SignedPolicyBundle>
    pd_result,         \* what the latest call on the PolicyDistributor returned
    cosign,            \* the request_cosignatures call of the WitnessCoordinator
    db,                \* QuorumStorage.db : the sled tree, key -> value
    qs_result          \* what the latest call on the QuorumStorage returned

gwVars  == <<rate_limits, replay_cache, policy_cache, tlog, tree, resp>>
kmsVars == <<config, cache, hsm_a_keys, quorum_approvals, kms_result, kms_calls, kms_buffers>>
extVars == <<gw_tasks, current_bundle, next_bundle, pd_result, cosign, db, qs_result>>
auxVars == <<checkpoints, log_result, dd_tasks, sealed, ops_result, extVars>>
vars    == <<now, nreq, overflow_checks, gwVars, kmsVars, auxVars>>

-----------------------------------------------------------------------------
(* Bounds of the model *)

MaxReq      == 2     \* calls per behaviour of the gateway specification
MaxKmsReq   == 5     \* calls per behaviour of the KMS specification
MaxRateReq  == 102   \* calls per behaviour of the rate-limit specification
MaxNow      == 460000   \* the clock stops advancing here
MaxQuorumReq == 4    \* calls per behaviour of the quorum specification
MaxLogLen   == 7     \* entries appended per behaviour of the log specification
MaxCheckpoints == 2  \* checkpoints created per behaviour of the log specification
MaxTasks    == 2     \* concurrent dual_decrypt calls per behaviour
MaxGwTasks  == 2     \* concurrent verify / decrypt handlers per behaviour
MaxBundleVersion == 2 \* the highest version of a policy bundle offered
MaxEvictReq == 4     \* calls per behaviour of the cache eviction specification
MaxStorageReq == 4   \* calls per behaviour of the quorum storage specification
MaxIdsReq   == 4     \* calls per behaviour of the KMS identifier specification
MaxSmallTicks == 1   \* clock steps per behaviour of the handler clock specification

StartMs     == 100000   \* the clock when the gateway starts

Min(a, b) == IF a < b THEN a ELSE b

-----------------------------------------------------------------------------
(* Byte-string helpers *)

\* &x[..4.min(x.len())]
Prefix4(s) == SubSeq(s, 1, Min(4, Len(s)))

\* hex::encode: the lower-case hexadecimal text of the bytes
Hex(s) == "hex(" \o s \o ")"

\* Sha256::new().update(a).update(b)... finalize(): a hash of the concatenation
Sha256(bytes) == "sha256(" \o bytes \o ")"

\* hkdf_sha256_derive(ikm, salt, info, 32)
hkdf_sha256_derive(ikm, salt, info) ==
    "hkdf(" \o ikm \o "|" \o salt \o "|" \o info \o ")"

-----------------------------------------------------------------------------
(* Signatures (crypto/sig.rs).  A key pair is named by one identifier; the  *)
(* public key is "pk:"id and the secret key "sk:"id.                        *)

SigKeyIds == {"client", "mallory", "signer", "witness1", "witness2", "witness3"}
SigPk(id) == "pk:" \o id
SigSk(id) == "sk:" \o id

dilithium3_sign(secret_key, message) == "sig(" \o secret_key \o "|" \o message \o ")"

dilithium3_verify(public_key, message, signature) ==
    \E id \in SigKeyIds :
        /\ public_key = SigPk(id)
        /\ signature = dilithium3_sign(SigSk(id), message)

-----------------------------------------------------------------------------
(* KEM (crypto/kem.rs): the ciphertext of an encapsulation against pk with  *)
(* randomness r, and the shared secret both sides obtain from it.           *)

KemKeyIds == {"hsmA"}
KemPk(id) == "kpk:" \o id
KemSk(id) == "ksk:" \o id
KemRands  == {"r1", "r2"}

KemCiphertext(pk, r) == "kem(" \o pk \o "|" \o r \o ")"
KemSecret(pk, r)     == "ss(" \o pk \o "|" \o r \o ")"

kyber768_encapsulate(public_key, r) ==
    [ct |-> KemCiphertext(public_key, r), ss |-> KemSecret(public_key, r)]

WellFormedKemCts == {KemCiphertext(KemPk(id), r) : id \in KemKeyIds, r \in KemRands}

\* Ciphertext::from_bytes fails on a wrong length; a ciphertext made for another
\* key decapsulates to an unrelated secret (implicit rejection).
kyber768_decapsulate(secret_key, ciphertext) ==
    IF ciphertext \notin WellFormedKemCts
    THEN [ok |-> FALSE, ss |-> "", err |-> "InternalError"]
    ELSE IF \E id \in KemKeyIds, r \in KemRands :
                secret_key = KemSk(id) /\ ciphertext = KemCiphertext(KemPk(id), r)
         THEN LET w == CHOOSE w \in KemKeyIds \X KemRands :
                          secret_key = KemSk(w[1]) /\ ciphertext = KemCiphertext(KemPk(w[1]), w[2])
              IN  [ok |-> TRUE, ss |-> KemSecret(KemPk(w[1]), w[2]), err |-> ""]
         ELSE [ok |-> TRUE, ss |-> "rej(" \o secret_key \o "|" \o ciphertext \o ")", err |-> ""]

-----------------------------------------------------------------------------
(* AEAD (crypto/aead.rs) *)

Payloads == {"hello", "bye"}

aes_256_gcm_encrypt(key, nonce, plaintext, aad) ==
    "aead(" \o key \o "|" \o nonce \o "|" \o aad \o "|" \o plaintext \o ")"

aes_256_gcm_decrypt(key, nonce, ciphertext, aad) ==
    IF \E p \in Payloads : ciphertext = aes_256_gcm_encrypt(key, nonce, p, aad)
    THEN [ok |-> TRUE, err |-> "",
          plaintext |-> CHOOSE p \in Payloads : ciphertext = aes_256_gcm_encrypt(key, nonce, p, aad)]
    ELSE [ok |-> FALSE, err |-> "AeadFailure", plaintext |-> ""]

-----------------------------------------------------------------------------
(* AAD (crypto/aad.rs) and the envelope (envelope/mod.rs).  An Option is a  *)
(* sequence of length 0 or 1.                                               *)

Aad_build(ver, tenant_id, policy_id, path, ts_epoch_ms, required_algs, hybrid, device_attest_hash) ==
    [ver |-> ver, tenant_id |-> tenant_id, policy_id |-> policy_id, path |-> path,
     ts_epoch_ms |-> ts_epoch_ms, required_algs |-> required_algs, hybrid |-> hybrid,
     device_attest_hash |-> device_attest_hash]

Aad_to_cbor(aad) ==
    "aad{" \o ToString(aad.ver) \o "|" \o aad.tenant_id \o "|" \o aad.policy_id \o "|"
           \o aad.path \o "|" \o ToString(aad.ts_epoch_ms) \o "|" \o aad.required_algs \o "|"
           \o ToString(aad.hybrid)
           \o (IF Len(aad.device_attest_hash) = 0 THEN "" ELSE "|" \o aad.device_attest_hash[1])
           \o "}"

ENVELOPE_VERSION == 1

AlgorithmSet_default ==
    [kem |-> "ML-KEM-768", sig |-> "ML-DSA-65", aead |-> "AES-256-GCM", hybrid |-> TRUE]

Envelope_new(tenant_id, policy_id, path, ts) ==
    [ver |-> ENVELOPE_VERSION, algs |-> AlgorithmSet_default,
     tenant_id |-> tenant_id, policy_id |-> policy_id, path |-> path,
     ts_epoch_ms |-> ts, nonce |-> "000000000000",
     aad_ext |-> [device_attest_hash |-> <<>>, required_algs |-> "kyber+dilithium"],
     kem_pub_ephem |-> <<>>, kem_ct |-> "", sig |-> "", ct |-> ""]

Envelope_to_cbor(e) ==
    "env{1:" \o ToString(e.ver)
      \o "|2:" \o e.algs.kem \o "," \o e.algs.sig \o "," \o e.algs.aead \o "," \o ToString(e.algs.hybrid)
      \o "|3:" \o e.tenant_id \o "|4:" \o e.policy_id \o "|5:" \o e.path
      \o "|6:" \o ToString(e.ts_epoch_ms) \o "|7:" \o e.nonce
      \o "|8:" \o (IF Len(e.aad_ext.device_attest_hash) = 0 THEN ""
                   ELSE e.aad_ext.device_attest_hash[1] \o ",") \o e.aad_ext.required_algs
      \o (IF Len(e.kem_pub_ephem) = 0 THEN "" ELSE "|9:" \o e.kem_pub_ephem[1])
      \o "|10:" \o e.kem_ct \o "|11:" \o e.sig \o "|12:" \o e.ct \o "}"

\* The AAD every operation rebuilds from the envelope's own fields
EnvelopeAad(e) ==
    Aad_build(e.ver, e.tenant_id, e.policy_id, e.path, e.ts_epoch_ms,
              e.aad_ext.required_algs, e.algs.hybrid, e.aad_ext.device_attest_hash)

\* build_signature_message that leaves the envelope header out
build_signature_message_no_header(envelope, aad_bytes) ==
    envelope.nonce \o envelope.ct \o Sha256(aad_bytes)

\* EnvelopeOps::build_signature_message
build_signature_message(envelope, aad_bytes) ==
    LET env_copy == [envelope EXCEPT !.sig = ""]
    IN  Envelope_to_cbor(env_copy) \o envelope.nonce \o envelope.ct \o Sha256(aad_bytes)

\* EnvelopeOps::verify: Ok(()) or Err(InvalidSignature)
EnvelopeOps_verify(envelope, client_sig_pk) ==
    LET aad_bytes == Aad_to_cbor(EnvelopeAad(envelope))
        sig_msg   == build_signature_message(envelope, aad_bytes)
    IN  dilithium3_verify(client_sig_pk, sig_msg, envelope.sig)

-----------------------------------------------------------------------------
(* Policy (policy.rs) *)

DefaultMaxAgeMs    == 30000
DefaultReplayTtlMs == 30000

\* The policy the verify handler builds when the cache has none
DefaultPolicy(envelope) ==
    [tenant_id |-> Hex(envelope.tenant_id), policy_id |-> Hex(envelope.policy_id),
     path |-> envelope.path, required_algs |-> envelope.aad_ext.required_algs,
     max_age_ms |-> DefaultMaxAgeMs, max_body_bytes |-> 65536,
     require_device_attest |-> FALSE, hybrid_allowed |-> TRUE,
     replay_ttl_ms |-> DefaultReplayTtlMs, version |-> 1]

\* Policy::validate_envelope, with the clock passed in: "Ok" or "PolicyMismatch"
validate_envelope(self, tenant_id, policy_id, path, ts_epoch_ms, required_algs, now_ms) ==
    IF tenant_id # self.tenant_id THEN "PolicyMismatch"
    ELSE IF policy_id # self.policy_id THEN "PolicyMismatch"
    ELSE IF path # self.path THEN "PolicyMismatch"
    ELSE IF required_algs # self.required_algs THEN "PolicyMismatch"
    ELSE IF now_ms > ts_epoch_ms /\ (now_ms - ts_epoch_ms) > self.max_age_ms THEN "PolicyMismatch"
    ELSE "Ok"

-----------------------------------------------------------------------------
(* Dual-control KMS (crypto/kms.rs) *)

\* impl Default for DualControlConfig
DualControlConfig_default ==
    [hsm_a_endpoint |-> "mock://hsm-a", hsm_b_endpoint |-> "mock://hsm-b",
     require_quorum |-> TRUE, quorum_threshold |-> 2, timeout_ms |-> 5000,
     max_cache_entries |-> 100, cache_ttl_secs |-> 300]

MsPerSec == 1000

\* The cache key built at the head of dual_decrypt
CacheKey(kem_ciphertext, policy_id, tenant_id, path) ==
    kem_ciphertext \o policy_id \o tenant_id \o path

\* The request id under which approvals for a derivation are recorded
RequestId(cache_key) == hkdf_sha256_derive(cache_key, "benteng/request-id/v1", "")

\* format!("{}-{}", hex(&tenant_id[..4]), hex(&policy_id[..4])); the slices
\* are taken without a length check by dual_decrypt
Kid(tenant_id, policy_id) == Hex(SubSeq(tenant_id, 1, 4)) \o "-" \o Hex(SubSeq(policy_id, 1, 4))

KmsOk(v)   == [ok |-> TRUE,  val |-> v,  err |-> ""]
KmsErr(e)  == [ok |-> FALSE, val |-> "", err |-> e]

\* DualControlKms::get_k1
get_k1(keys, kem_ciphertext, kid) ==
    IF kid \notin DOMAIN keys
    THEN KmsErr("KmsError(KEM key not found in HSM-A)")
    ELSE LET d == kyber768_decapsulate(keys[kid].secret_key, kem_ciphertext)
         IN  IF ~d.ok THEN KmsErr(d.err)
             ELSE KmsOk(hkdf_sha256_derive(d.ss, "benteng/hsm-a/k1/v1", ""))

\* The number of approvals get_k2 and check_quorum count for a request id
ApprovalCount(approvals, request_id) ==
    IF request_id \in DOMAIN approvals THEN Len(approvals[request_id]) ELSE 0

\* get_k2 comparing with <= threshold - 2 (off by one)
get_k2_off_by_one(cfg, approvals, request_id, policy_id) ==
    IF cfg.require_quorum /\ ApprovalCount(approvals, request_id) + 1 < cfg.quorum_threshold
    THEN KmsErr("KmsError(Insufficient quorum approvals)")
    ELSE KmsOk(hkdf_sha256_derive(request_id \o policy_id, "benteng/hsm-b/k2/v1", ""))

\* DualControlKms::get_k2
get_k2(cfg, approvals, request_id, policy_id) ==
    IF cfg.require_quorum /\ ApprovalCount(approvals, request_id) < cfg.quorum_threshold
    THEN KmsErr("KmsError(Insufficient quorum approvals)")
    ELSE KmsOk(hkdf_sha256_derive(request_id \o policy_id, "benteng/hsm-b/k2/v1", ""))

\* The final DEK: HKDF over K1 || K2
CombineDek(k1, k2, tenant_id, policy_id, path) ==
    hkdf_sha256_derive(k1 \o k2, "benteng/dek/v1", tenant_id \o policy_id \o path)

\* cache.retain(|_, v| v.expires_at > now)
RetainUnexpired(c, t) ==
    [k \in {k \in DOMAIN c : c[k].expires_at > t} |-> c[k]]

Without(c, k) == [x \in DOMAIN c \ {k} |-> c[x]]

\* CacheInsert that evicts one entry of a full cache without first dropping
\* the expired ones
CacheInsert_no_retain(cfg, c, cache_key, cached, t) ==
    LET full(m)  == Cardinality(DOMAIN m) >= cfg.max_cache_entries
        evicted  == IF full(c) /\ DOMAIN c # {}
                    THEN {Without(c, k) : k \in DOMAIN c}
                    ELSE {c}
    IN  {[k \in DOMAIN m \cup {cache_key} |-> IF k = cache_key THEN cached ELSE m[k]] : m \in evicted}

\* The caches that inserting (cache_key -> cached) can leave behind: eviction
\* when the cache is full, then the insert.  keys().next() of a HashMap is
\* any key.
CacheInsert(cfg, c, cache_key, cached, t) ==
    LET full(m)  == Cardinality(DOMAIN m) >= cfg.max_cache_entries
        retained == IF full(c) THEN RetainUnexpired(c, t) ELSE c
        evicted  == IF full(c) /\ full(retained) /\ DOMAIN retained # {}
                    THEN {Without(retained, k) : k \in DOMAIN retained}
                    ELSE {retained}
    IN  {[k \in DOMAIN m \cup {cache_key} |-> IF k = cache_key THEN cached ELSE m[k]] : m \in evicted}

\* CacheHit that does not look at expires_at
CacheHitAnyAge(c, cache_key, t) ==
    cache_key \in DOMAIN c

\* The cache check at the head of dual_decrypt
CacheHit(c, cache_key, t) ==
    cache_key \in DOMAIN c /\ c[cache_key].expires_at > t

\* The buffers k1, k2 and combined of dual_decrypt: "unused" when the call
\* never filled the buffer, "live" while it holds key material, "zeroized"
\* once zeroize() has overwritten it
Buffers(k1, k2, combined) == [k1 |-> k1, k2 |-> k2, combined |-> combined]

NoBuffers == Buffers("unused", "unused", "unused")

\* kms.rs 241-246: k1.zeroize(); k2.zeroize(); combined.zeroize()
ZeroizeIntermediate(b) == Buffers("zeroized", "zeroized", "zeroized")

\* The ? operator returning Err from dual_decrypt: the locals are dropped;
\* [u8; 32] and Vec<u8> have no destructor that overwrites them
ReturnEarly(b) == b

\* <DualControlKms as KmsGate>::dual_decrypt: the set of outcomes
\* [res, cache, kms_calls, buffers] of one call at time t.  res.err = "panic"
\* when a slice index is out of range.
dual_decrypt(cfg, c, keys, approvals, calls, kem_ciphertext, policy_id, tenant_id, path, t) ==
    LET cache_key  == CacheKey(kem_ciphertext, policy_id, tenant_id, path)
        request_id == RequestId(cache_key)
        calls0     == [calls EXCEPT !.dd = @ + 1]
        unchanged(res) == {[res |-> res, cache |-> c, kms_calls |-> calls0, buffers |-> NoBuffers]}
    IN  IF CacheHit(c, cache_key, t)
        THEN unchanged(KmsOk(c[cache_key].key_material))
        ELSE IF Len(tenant_id) < 4 \/ Len(policy_id) < 4
        THEN unchanged(KmsErr("panic"))
        ELSE
          LET kid    == Kid(tenant_id, policy_id)
              k1     == get_k1(keys, kem_ciphertext, kid)
              callsA == [calls0 EXCEPT !.a = @ + 1]
          IN  IF ~k1.ok
              THEN {[res |-> k1, cache |-> c, kms_calls |-> callsA, buffers |-> NoBuffers]}
              ELSE
                LET k2     == get_k2(cfg, approvals, request_id, policy_id)
                    callsB == [callsA EXCEPT !.b = @ + 1]
                IN  IF ~k2.ok
                    THEN {[res |-> k2, cache |-> c, kms_calls |-> callsB,
                           buffers |-> ReturnEarly(Buffers("live", "unused", "unused"))]}
                    ELSE
                      LET dek    == CombineDek(k1.val, k2.val, tenant_id, policy_id, path)
                          cached == [expires_at   |-> t + cfg.cache_ttl_secs * MsPerSec,
                                     key_material |-> dek]
                      IN  {[res |-> KmsOk(dek), cache |-> m, kms_calls |-> callsB,
                            buffers |-> ZeroizeIntermediate(Buffers("live", "live", "live"))] :
                              m \in CacheInsert(cfg, c, cache_key, cached, t)}

\* envelope::kms_decrypt::decrypt_with_kms, given the outcome of dual_decrypt
decrypt_with_kms(envelope, dd) ==
    IF ~dd.ok THEN [ok |-> FALSE, err |-> dd.err, plaintext |-> ""]
    ELSE IF Len(envelope.nonce) # 12 THEN [ok |-> FALSE, err |-> "AeadFailure", plaintext |-> ""]
    ELSE aes_256_gcm_decrypt(dd.val, envelope.nonce, envelope.ct, Aad_to_cbor(EnvelopeAad(envelope)))

-----------------------------------------------------------------------------
(* Sealing (envelope/operations.rs) and the envelopes clients submit *)

\* EnvelopeOps::encrypt_and_sign, with the clock value ts and the KEM
\* randomness r it draws passed in
encrypt_and_sign(payload, tenant_id, policy_id, path, server_kem_pk, client_sig_sk, hybrid, ts, nonce, r) ==
    LET e0  == [Envelope_new(tenant_id, policy_id, path, ts) EXCEPT
                   !.algs.hybrid = hybrid, !.nonce = nonce]
        aad_bytes == Aad_to_cbor(EnvelopeAad(e0))
        kem == kyber768_encapsulate(server_kem_pk, r)
        dek == hkdf_sha256_derive(kem.ss, tenant_id, policy_id)
        e1  == [e0 EXCEPT !.kem_ct = kem.ct,
                          !.ct = aes_256_gcm_encrypt(dek, nonce, payload, aad_bytes)]
    IN  [e1 EXCEPT !.sig = dilithium3_sign(client_sig_sk, build_signature_message(e1, aad_bytes))]

\* EnvelopeOps::decrypt whose DEK derivation also binds the path
EnvelopeOps_decrypt_path_bound(envelope, server_kem_sk) ==
    LET aad_bytes == Aad_to_cbor(EnvelopeAad(envelope))
        d   == kyber768_decapsulate(server_kem_sk, envelope.kem_ct)
        dek == hkdf_sha256_derive(d.ss, envelope.tenant_id, envelope.policy_id \o envelope.path)
    IN  IF ~d.ok THEN [ok |-> FALSE, err |-> d.err, plaintext |-> ""]
        ELSE IF Len(envelope.nonce) # 12 THEN [ok |-> FALSE, err |-> "InternalError", plaintext |-> ""]
        ELSE aes_256_gcm_decrypt(dek, envelope.nonce, envelope.ct, aad_bytes)

\* EnvelopeOps::decrypt: Ok(plaintext), Err(InternalError) or Err(AeadFailure)
EnvelopeOps_decrypt(envelope, server_kem_sk) ==
    LET aad_bytes == Aad_to_cbor(EnvelopeAad(envelope))
        d   == kyber768_decapsulate(server_kem_sk, envelope.kem_ct)
        dek == hkdf_sha256_derive(d.ss, envelope.tenant_id, envelope.policy_id)
    IN  IF ~d.ok THEN [ok |-> FALSE, err |-> d.err, plaintext |-> ""]
        ELSE IF Len(envelope.nonce) # 12 THEN [ok |-> FALSE, err |-> "InternalError", plaintext |-> ""]
        ELSE aes_256_gcm_decrypt(dek, envelope.nonce, envelope.ct, aad_bytes)

\* kdf::derive_hybrid_dek(ss_ecc, ss_pqc, tenant_id, policy_id, path)
derive_hybrid_dek(ss_ecc, ss_pqc, tenant_id, policy_id, path) ==
    hkdf_sha256_derive("benteng/hybrid/v1" \o ss_ecc \o ss_pqc, tenant_id \o policy_id,
                       "benteng/aead/v1" \o tenant_id \o policy_id \o path)

\* The DEK dual_decrypt derives for an envelope when quorum is not required:
\* every input of the derivation is known to the sender of the envelope
GatewayDek(kem_ss, kem_ct, tenant_id, policy_id, path) ==
    LET rid == RequestId(CacheKey(kem_ct, policy_id, tenant_id, path))
    IN  CombineDek(hkdf_sha256_derive(kem_ss, "benteng/hsm-a/k1/v1", ""),
                   hkdf_sha256_derive(rid \o policy_id, "benteng/hsm-b/k2/v1", ""),
                   tenant_id, policy_id, path)

\* An envelope whose payload is encrypted under the DEK the gateway's KMS
\* derives, signed with the key of signer
ClientEnvelope(tenant_id, policy_id, path, ts, required_algs, signer, r) ==
    LET pk  == KemPk("hsmA")
        kem == kyber768_encapsulate(pk, r)
        e0  == [Envelope_new(tenant_id, policy_id, path, ts) EXCEPT
                   !.algs.hybrid = FALSE, !.nonce = "nonce0000001",
                   !.aad_ext.required_algs = required_algs, !.kem_ct = kem.ct]
        aad_bytes == Aad_to_cbor(EnvelopeAad(e0))
        dek == GatewayDek(kem.ss, kem.ct, tenant_id, policy_id, path)
        e1  == [e0 EXCEPT !.ct = aes_256_gcm_encrypt(dek, e0.nonce, "hello", aad_bytes)]
    IN  [e1 EXCEPT !.sig = dilithium3_sign(SigSk(signer), build_signature_message(e1, aad_bytes))]

\* The public key registered for the client whose envelopes the gateway serves
ClientSigPk == SigPk("client")

EnvGood   == ClientEnvelope("aaaa1", "pppp1", "/pay", StartMs, "kyber+dilithium", "client", "r1")
EnvForged == ClientEnvelope("aaaa1", "pppp1", "/pay", StartMs, "kyber+dilithium", "mallory", "r1")
EnvAlias  == ClientEnvelope("aaaa2", "pppp1", "/pay", StartMs, "kyber+dilithium", "client", "r1")
EnvEdge   == ClientEnvelope("aaaa1", "pppp1", "/pay", StartMs - DefaultMaxAgeMs - 1,
                            "kyber+dilithium", "client", "r1")
EnvAhead  == ClientEnvelope("aaaa1", "pppp1", "/pay", StartMs + 30000, "kyber+dilithium", "client", "r1")

Envelopes == {EnvGood, EnvForged, EnvAlias, EnvEdge, EnvAhead}

JunkBody == "junk"
Bodies   == {Envelope_to_cbor(e) : e \in Envelopes} \cup {JunkBody}

\* The envelope a client of the SDK seals for the gateway's HSM-A key
EnvSealed == encrypt_and_sign("hello", "aaaa1", "pppp1", "/pay", KemPk("hsmA"), SigSk("client"),
                              FALSE, StartMs, "nonce0000001", "r1")

\* An envelope of a tenant HSM-A holds no key for, and one whose KEM
\* ciphertext has the wrong length
EnvNoKey  == ClientEnvelope("bbbb1", "pppp1", "/pay", StartMs, "kyber+dilithium", "client", "r1")
EnvBadKem == [EnvGood EXCEPT !.kem_ct = "short"]

\* Every envelope a request body of the model can carry
AllEnvelopes == Envelopes \cup {EnvSealed, EnvNoKey, EnvBadKem}

\* ciborium::from_reader(&body[..])
Decodes(body)  == \E e \in AllEnvelopes : Envelope_to_cbor(e) = body
FromCbor(body) == CHOOSE e \in AllEnvelopes : Envelope_to_cbor(e) = body

\* A policy the deployment stores for tenant aaaa1
StoredPolicy ==
    [tenant_id |-> "aaaa1", policy_id |-> "pppp1", path |-> "/pay",
     required_algs |-> "kyber+dilithium", max_age_ms |-> 60000, max_body_bytes |-> 65536,
     require_device_attest |-> FALSE, hybrid_allowed |-> TRUE,
     replay_ttl_ms |-> 30000, version |-> 1]

\* format!("{}-{}-{}", hex(tenant[..4]), hex(policy[..4]), path)
PolicyKey(envelope) ==
    Hex(Prefix4(envelope.tenant_id)) \o "-" \o Hex(Prefix4(envelope.policy_id)) \o "-" \o envelope.path

EmptyMap == [k \in {} |-> 0]

PolicyStores == {EmptyMap, [k \in {PolicyKey(EnvGood)} |-> StoredPolicy]}

\* cache.get(&policy_key).cloned().unwrap_or_else(default)
LookupPolicy(pc, envelope) ==
    IF PolicyKey(envelope) \in DOMAIN pc THEN pc[PolicyKey(envelope)] ELSE DefaultPolicy(envelope)

-----------------------------------------------------------------------------
(* 64-bit arithmetic of the handlers.  The word is modelled modulo           *)
(* U64Modulus; an overflowing operation panics when the build checks         *)
(* overflow and wraps when it does not.                                      *)

U64Modulus == 1073741824

AddU64(a, b) == [overflow |-> a + b >= U64Modulus, val |-> (a + b) % U64Modulus]
SubU64(a, b) == [overflow |-> a < b, val |-> (a - b + U64Modulus) % U64Modulus]

-----------------------------------------------------------------------------
(* Rate limiting (edge-api main.rs).  The tokens field holds thousandths of *)
(* a token, so that a refill of elapsed_s * refill_rate is exact for a      *)
(* clock in milliseconds.                                                   *)

RateMaxTokens  == 100
RateRefillRate == 10

RateLimitBucket_new(max_tokens, refill_rate, t) ==
    [tokens |-> max_tokens * MsPerSec, last_update |-> t,
     max_tokens |-> max_tokens, refill_rate |-> refill_rate]

\* try_consume that forgets self.last_update = now
try_consume_stale(self, tokens, t) ==
    LET elapsed  == IF t >= self.last_update THEN t - self.last_update ELSE 0
        refilled == Min(self.tokens + elapsed * self.refill_rate, self.max_tokens * MsPerSec)
        ok       == refilled >= tokens * MsPerSec
    IN  [ok |-> ok,
         bucket |-> [self EXCEPT !.tokens = IF ok THEN refilled - tokens * MsPerSec ELSE refilled]]

\* RateLimitBucket::try_consume at time t
try_consume(self, tokens, t) ==
    LET elapsed  == IF t >= self.last_update THEN t - self.last_update ELSE 0
        refilled == Min(self.tokens + elapsed * self.refill_rate, self.max_tokens * MsPerSec)
        ok       == refilled >= tokens * MsPerSec
    IN  [ok |-> ok,
         bucket |-> [self EXCEPT !.tokens = IF ok THEN refilled - tokens * MsPerSec ELSE refilled,
                                 !.last_update = t]]

RateKey(op, envelope) ==
    op \o "-" \o Hex(Prefix4(envelope.tenant_id)) \o "-" \o Hex(Prefix4(envelope.policy_id))

\* rate_limits.entry(rate_key).or_insert_with(new).try_consume(1.0)
RateLimit(rl, rate_key, t) ==
    LET bucket == IF rate_key \in DOMAIN rl THEN rl[rate_key]
                  ELSE RateLimitBucket_new(RateMaxTokens, RateRefillRate, t)
        tc     == try_consume(bucket, 1, t)
    IN  [ok |-> tc.ok,
         rate_limits |-> [k \in DOMAIN rl \cup {rate_key} |->
                              IF k = rate_key THEN tc.bucket ELSE rl[k]]]

-----------------------------------------------------------------------------
(* Replay suppression (edge-api main.rs) *)

ReplayWindowMs == 300000

\* ReplayRetain keeping records for the default replay_ttl_ms instead
ReplayRetainTtl(rc, t) ==
    [k \in {k \in DOMAIN rc : (IF t >= rc[k] THEN t - rc[k] ELSE 0) < DefaultReplayTtlMs} |-> rc[k]]

\* replay_cache.retain(|_, time| now - time < 300 s)
ReplayRetain(rc, t) ==
    [k \in {k \in DOMAIN rc : (IF t >= rc[k] THEN t - rc[k] ELSE 0) < ReplayWindowMs} |-> rc[k]]

ReplayInsert(rc, key, t) ==
    [k \in DOMAIN rc \cup {key} |-> IF k = key THEN t ELSE rc[k]]

-----------------------------------------------------------------------------
(* Responses and log entries *)

NoResp == [op |-> "none", body |-> "", status |-> 0, decision |-> "", reason |-> "",
           tlog_hash |-> "", age_ms |-> 0]

Rejected(op, body, status, reason) ==
    [op |-> op, body |-> body, status |-> status, decision |-> "REJECTED", reason |-> reason,
     tlog_hash |-> "", age_ms |-> 0]

Accepted(op, body, tlog_hash, age_ms) ==
    [op |-> op, body |-> body, status |-> 200, decision |-> "OK", reason |-> "",
     tlog_hash |-> tlog_hash, age_ms |-> age_ms]

\* The handler task panicked: the connection is dropped without a response
Panicked(op, body) ==
    [op |-> op, body |-> body, status |-> 0, decision |-> "", reason |-> "panic",
     tlog_hash |-> "", age_ms |-> 0]

ServerKid(envelope, purpose) ==
    "btk/ten-" \o Hex(Prefix4(envelope.tenant_id)) \o purpose

VerifyEntry(envelope, now_ms) ==
    LET sig_hash == Sha256(envelope.sig)
    IN  [v |-> 1, ten |-> envelope.tenant_id, typ |-> "verify", ts |-> now_ms,
         hdr_h |-> Sha256("verify" \o envelope.tenant_id \o envelope.policy_id \o sig_hash),
         sig_h |-> sig_hash, kid |-> ServerKid(envelope, "/server-sig/ML-DSA-65/v1"),
         pol |-> envelope.policy_id, rc |-> 0]

DecryptEntry(envelope, now_ms) ==
    [v |-> 1, ten |-> envelope.tenant_id, typ |-> "decrypt", ts |-> now_ms,
     hdr_h |-> Sha256("decrypt" \o envelope.tenant_id \o envelope.policy_id \o envelope.nonce),
     sig_h |-> Sha256(envelope.sig), kid |-> ServerKid(envelope, "/server-kem/ML-KEM-768/v1"),
     pol |-> envelope.policy_id, rc |-> 0]

\* LogAppend that puts the new entry at the head
LogPrepend(log, entry) == <<entry>> \o log

\* TransparencyLog::append: entries.push(entry); the tree is rebuilt from
\* the entries by rebuild_tree
LogAppend(log, entry) == Append(log, entry)

\* serde_json::to_vec(entry)
LogEntry_to_json(entry) ==
    "{v:" \o ToString(entry.v) \o ",ten:" \o entry.ten \o ",typ:" \o entry.typ
      \o ",ts:" \o ToString(entry.ts) \o ",hdr_h:" \o entry.hdr_h \o ",sig_h:" \o entry.sig_h
      \o ",kid:" \o entry.kid \o ",pol:" \o entry.pol \o ",rc:" \o ToString(entry.rc) \o "}"

\* The leaf and interior prefixes of rebuild_tree
LeafPrefix == "00"
NodePrefix == "01"

\* LeafHash without the leaf prefix
LeafHash_no_prefix(entry) == Sha256(LogEntry_to_json(entry))

\* Leaf node of an entry: SHA256(0x00 || json)
LeafHash(entry) == Sha256(LeafPrefix \o LogEntry_to_json(entry))

RECURSIVE NextLevel(_)
\* One pass of the bottom-up loop over nodes.chunks(2): a chunk of two is
\* hashed into its parent, a single trailing node is cloned
NextLevel(nodes) ==
    IF Len(nodes) = 0 THEN <<>>
    ELSE IF Len(nodes) = 1 THEN <<nodes[1]>>
    ELSE <<Sha256(NodePrefix \o nodes[1] \o nodes[2])>> \o NextLevel(SubSeq(nodes, 3, Len(nodes)))

RECURSIVE LeafNodes(_)
\* The leaf nodes of the entries, in order
LeafNodes(entries) ==
    IF Len(entries) = 0 THEN <<>>
    ELSE <<LeafHash(entries[1])>> \o LeafNodes(Tail(entries))

RECURSIVE BuildLevels(_)
\* while nodes.len() > 1 { nodes = next_level }
BuildLevels(nodes) ==
    IF Len(nodes) <= 1 THEN nodes ELSE BuildLevels(NextLevel(nodes))

\* TransparencyLog::rebuild_tree: the new value of self.tree, a MerkleNode
\* known by its hash
rebuild_tree(entries) ==
    IF Len(entries) = 0 THEN <<>>
    ELSE <<[hash |-> BuildLevels(LeafNodes(entries))[1]]>>

-----------------------------------------------------------------------------
(* Policy bundles and their distributor (policy_bundle.rs).  The clock of   *)
(* a bundle counts seconds.                                                 *)

\* SystemTime::now().duration_since(UNIX_EPOCH).as_secs()
NowSecs(t) == t \div MsPerSec

\* The policy of test_policy_bundle_signing, for a tenant and with a max age
BundlePolicy(tenant_id, max_age_ms) ==
    [tenant_id |-> tenant_id, policy_id |-> "policy1", path |-> "/test",
     required_algs |-> "kyber+dilithium", max_age_ms |-> max_age_ms, max_body_bytes |-> 65536,
     require_device_attest |-> FALSE, hybrid_allowed |-> TRUE,
     replay_ttl_ms |-> 30000, version |-> 1]

\* serde_json::to_vec of a Policy
Policy_to_json(p) ==
    "{" \o p.tenant_id \o "," \o p.policy_id \o "," \o p.path \o "," \o p.required_algs \o ","
        \o ToString(p.max_age_ms) \o "," \o ToString(p.max_body_bytes) \o ","
        \o ToString(p.require_device_attest) \o "," \o ToString(p.hybrid_allowed) \o ","
        \o ToString(p.replay_ttl_ms) \o "," \o ToString(p.version) \o "}"

RECURSIVE Policies_to_json(_)
Policies_to_json(policies) ==
    IF Len(policies) = 0 THEN ""
    ELSE Policy_to_json(policies[1]) \o Policies_to_json(Tail(policies))

\* SignedPolicyBundle::serialize_for_signing: the JSON of the bundle with its
\* signature cleared
serialize_for_signing(bundle) ==
    "{policies:[" \o Policies_to_json(bundle.policies) \o "],version:" \o ToString(bundle.version)
      \o ",created_at:" \o ToString(bundle.created_at) \o ",not_after:" \o ToString(bundle.not_after)
      \o ",signer_kid:" \o bundle.signer_kid \o ",signature:[]}"

\* SignedPolicyBundle::create at time t
SignedPolicyBundle_create(policies, version, ttl_secs, signer_kid, signing_key, t) ==
    LET bundle == [policies |-> policies, version |-> version, created_at |-> NowSecs(t),
                   not_after |-> NowSecs(t) + ttl_secs, signer_kid |-> signer_kid,
                   signature |-> ""]
    IN  [bundle EXCEPT !.signature = dilithium3_sign(signing_key, serialize_for_signing(bundle))]

\* SignedPolicyBundle::verify
SignedPolicyBundle_verify(self, public_key) ==
    dilithium3_verify(public_key, serialize_for_signing(self), self.signature)

\* SignedPolicyBundle::is_valid at time t
SignedPolicyBundle_is_valid(self, t) ==
    NowSecs(t) >= self.created_at /\ NowSecs(t) < self.not_after

\* PolicyDistributor::new
PolicyDistributor_new == [current_bundle |-> <<>>, next_bundle |-> <<>>]

\* PolicyDistributor::current_version
current_version(self) ==
    IF Len(self.current_bundle) = 0 THEN 0 ELSE self.current_bundle[1].version

\* update_bundle that also stages a bundle of the current version
update_bundle_allow_equal(self, bundle) ==
    IF bundle.version >= current_version(self)
    THEN [self EXCEPT !.next_bundle = <<bundle>>]
    ELSE self

\* PolicyDistributor::update_bundle: the distributor after the call
update_bundle(self, bundle) ==
    IF bundle.version > current_version(self)
    THEN [self EXCEPT !.next_bundle = <<bundle>>]
    ELSE self

\* activate_next that assigns whatever the staged slot holds
activate_next_unconditional(self) ==
    [current_bundle |-> self.next_bundle, next_bundle |-> <<>>]

\* PolicyDistributor::activate_next: the distributor after the call
activate_next(self) ==
    IF Len(self.next_bundle) = 1
    THEN [current_bundle |-> self.next_bundle, next_bundle |-> <<>>]
    ELSE self

RECURSIVE FindPolicy(_, _, _)
\* policies.iter().find(|p| p.tenant_id == tenant_id && p.policy_id == policy_id)
FindPolicy(policies, tenant_id, policy_id) ==
    IF Len(policies) = 0 THEN <<>>
    ELSE IF policies[1].tenant_id = tenant_id /\ policies[1].policy_id = policy_id
    THEN <<policies[1]>>
    ELSE FindPolicy(Tail(policies), tenant_id, policy_id)

\* get_policy that prefers the staged bundle
get_policy_staged_first(self, tenant_id, policy_id) ==
    IF Len(self.next_bundle) = 1
    THEN FindPolicy(self.next_bundle[1].policies, tenant_id, policy_id)
    ELSE IF Len(self.current_bundle) = 0 THEN <<>>
    ELSE FindPolicy(self.current_bundle[1].policies, tenant_id, policy_id)

\* PolicyDistributor::get_policy
get_policy(self, tenant_id, policy_id) ==
    IF Len(self.current_bundle) = 0 THEN <<>>
    ELSE FindPolicy(self.current_bundle[1].policies, tenant_id, policy_id)

-----------------------------------------------------------------------------
(* The witness coordinator (transparency/src/witness.rs) *)

\* to_le_bytes of an integer
LeBytes(n) == "le(" \o ToString(n) \o ")"

\* The message a witness signs: tree_size_le || root_hash || timestamp_le
WitnessMessage(sig) == LeBytes(sig.tree_size) \o sig.root_hash \o LeBytes(sig.timestamp)

\* verify_witness_signature that accepts every signature
verify_witness_signature_unchecked(sig, public_key) == TRUE

\* WitnessCoordinator::verify_witness_signature
verify_witness_signature(sig, public_key) ==
    dilithium3_verify(public_key, WitnessMessage(sig), sig.signature)

\* The witnesses of test_witness_quorum, each with the public key of its id
Witnesses ==
    <<[id |-> "witness1", url |-> "http://w1.example", public_key |-> SigPk("witness1")],
      [id |-> "witness2", url |-> "http://w2.example", public_key |-> SigPk("witness2")],
      [id |-> "witness3", url |-> "http://w3.example", public_key |-> SigPk("witness3")]>>

\* A WitnessSignature over its own fields, made with the key of signer
WitnessSignature(witness_id, tree_size, root_hash, timestamp, signer) ==
    LET body == [witness_id |-> witness_id, tree_size |-> tree_size, root_hash |-> root_hash,
                 timestamp |-> timestamp, signature |-> ""]
    IN  [body EXCEPT !.signature = dilithium3_sign(SigSk(signer), WitnessMessage(body))]

\* What the POST to witness.url/sign can come back with: no response within
\* five seconds, a status that is not a success, a body that is not a
\* WitnessSignature, or a WitnessSignature: signed by the witness for the
\* requested checkpoint or for an older one, signed by someone else, or
\* changed after it was signed
WitnessAnswers(witness, tree_size, root_hash) ==
    {[kind |-> k, sig |-> WitnessSignature(witness.id, 0, "", 0, "mallory")] :
        k \in {"send_error", "status_503", "bad_json"}}
    \cup {[kind |-> "signature", sig |-> s] :
            s \in {WitnessSignature(witness.id, tree_size, root_hash, 1234, witness.id),
                   WitnessSignature(witness.id, tree_size - 1, "older", 1234, witness.id),
                   WitnessSignature(witness.id, tree_size, root_hash, 1234, "mallory"),
                   [WitnessSignature(witness.id, tree_size - 1, "older", 1234, witness.id)
                       EXCEPT !.tree_size = tree_size, !.root_hash = root_hash]}}

\* WitnessCoordinator::request_single_signature, given the answer to the POST
request_single_signature(witness, answer) ==
    IF answer.kind = "send_error" THEN [ok |-> FALSE, err |-> "send", sig |-> answer.sig]
    ELSE IF answer.kind # "signature" /\ answer.kind # "bad_json"
    THEN [ok |-> FALSE, err |-> "Witness returned 503", sig |-> answer.sig]
    ELSE IF answer.kind = "bad_json" THEN [ok |-> FALSE, err |-> "json", sig |-> answer.sig]
    ELSE IF ~verify_witness_signature(answer.sig, witness.public_key)
    THEN [ok |-> FALSE, err |-> "Invalid witness signature", sig |-> answer.sig]
    ELSE [ok |-> TRUE, err |-> "", sig |-> answer.sig]

\* The end of request_cosignatures: Ok(signatures) or Err(Insufficient ...)
CosignResult(signatures, quorum_threshold) ==
    IF Len(signatures) >= quorum_threshold
    THEN [ok |-> TRUE, signatures |-> signatures]
    ELSE [ok |-> FALSE, signatures |-> <<>>]

-----------------------------------------------------------------------------
(* The handlers of the gateway (edge-api main.rs) *)

\* async fn verify(State(state), body)
Verify(body) ==
    /\ nreq' = nreq + 1
    /\ UNCHANGED <<now, overflow_checks, policy_cache, kmsVars, auxVars>>
    /\ IF ~Decodes(body)
       THEN /\ resp' = Rejected("verify", body, 400, "Invalid envelope format")
            /\ UNCHANGED <<rate_limits, replay_cache, tlog, tree>>
       ELSE
         LET envelope == FromCbor(body)
             rl       == RateLimit(rate_limits, RateKey("verify", envelope), now)
             sig_hash == Sha256(envelope.sig)
             retained == ReplayRetain(replay_cache, now)
             policy   == LookupPolicy(policy_cache, envelope)
             now_ms   == now
             deadline == AddU64(envelope.ts_epoch_ms, policy.max_age_ms)
             age      == SubU64(now_ms, envelope.ts_epoch_ms)
             entry    == VerifyEntry(envelope, now_ms)
         IN  /\ rate_limits' = rl.rate_limits
             /\ IF ~rl.ok
                THEN /\ resp' = Rejected("verify", body, 429, "Rate limit exceeded")
                     /\ UNCHANGED <<replay_cache, tlog, tree>>
                ELSE IF sig_hash \in DOMAIN retained
                THEN /\ replay_cache' = retained
                     /\ resp' = Rejected("verify", body, 409, "Replay detected")
                     /\ UNCHANGED <<tlog, tree>>
                ELSE /\ replay_cache' = ReplayInsert(retained, sig_hash, now)
                     /\ IF deadline.overflow /\ overflow_checks
                        THEN resp' = Panicked("verify", body) /\ UNCHANGED <<tlog, tree>>
                        ELSE IF now_ms > deadline.val
                        THEN /\ resp' = Rejected("verify", body, 400, "Envelope too old")
                             /\ UNCHANGED <<tlog, tree>>
                        ELSE /\ tlog' = LogAppend(tlog, entry)
                             /\ tree' = rebuild_tree(tlog')
                             /\ resp' = IF age.overflow /\ overflow_checks
                                        THEN Panicked("verify", body)
                                        ELSE Accepted("verify", body, Hex(entry.hdr_h), age.val)

DecryptMaxAgeMs == 30000

KmsCall(name, arg, res) == [call |-> name, arg |-> arg, ok |-> res.ok, val |-> res.val, err |-> res.err]

\* async fn decrypt(State(state), body)
Decrypt(body) ==
    /\ nreq' = nreq + 1
    /\ UNCHANGED <<now, overflow_checks, policy_cache, rate_limits, replay_cache,
                   config, hsm_a_keys, quorum_approvals, auxVars>>
    /\ IF ~Decodes(body)
       THEN /\ resp' = Rejected("decrypt", body, 400, "Invalid envelope format")
            /\ UNCHANGED <<tlog, tree, cache, kms_result, kms_calls, kms_buffers>>
       ELSE
         LET envelope == FromCbor(body)
             now_ms   == now
             deadline == AddU64(envelope.ts_epoch_ms, DecryptMaxAgeMs)
             entry    == DecryptEntry(envelope, now_ms)
         IN  IF deadline.overflow /\ overflow_checks
             THEN /\ resp' = Panicked("decrypt", body)
                  /\ UNCHANGED <<tlog, tree, cache, kms_result, kms_calls, kms_buffers>>
             ELSE IF now_ms > deadline.val
             THEN /\ resp' = Rejected("decrypt", body, 400, "Envelope too old")
                  /\ UNCHANGED <<tlog, tree, cache, kms_result, kms_calls, kms_buffers>>
             ELSE \E o \in dual_decrypt(config, cache, hsm_a_keys, quorum_approvals, kms_calls,
                                        envelope.kem_ct, envelope.policy_id,
                                        envelope.tenant_id, envelope.path, now) :
                    LET opened == decrypt_with_kms(envelope, o.res)
                    IN  /\ cache' = o.cache
                        /\ kms_calls' = o.kms_calls
                        /\ kms_buffers' = o.buffers
                        /\ kms_result' = KmsCall("dual_decrypt",
                                                 CacheKey(envelope.kem_ct, envelope.policy_id,
                                                          envelope.tenant_id, envelope.path), o.res)
                        /\ IF o.res.err = "panic"
                           THEN resp' = Panicked("decrypt", body) /\ UNCHANGED <<tlog, tree>>
                           ELSE IF opened.ok
                           THEN /\ tlog' = LogAppend(tlog, entry)
                                /\ tree' = rebuild_tree(tlog')
                                /\ resp' = Accepted("decrypt", body, Hex(entry.hdr_h), 0)
                           ELSE /\ resp' = Rejected("decrypt", body, 400, "Decrypt failed")
                                /\ UNCHANGED <<tlog, tree>>

\* The wall clock advances by d milliseconds
Tick(d) ==
    /\ now + d <= MaxNow
    /\ now' = now + d
    /\ UNCHANGED <<nreq, overflow_checks, gwVars, kmsVars, auxVars>>

-----------------------------------------------------------------------------
(* The gateway as main() constructs it *)

MainKid == Hex("aaaa") \o "-" \o Hex("pppp")

HsmKeyPair(id) == [public_key |-> KemPk(id), secret_key |-> KemSk(id)]

NoKmsResult == [call |-> "none", arg |-> "", ok |-> FALSE, val |-> "", err |-> ""]

\* DualControlKms::new(config) followed by init_mock_hsm(kid)
KmsInit(cfg) ==
    /\ config = cfg
    /\ cache = EmptyMap
    /\ hsm_a_keys = [k \in {MainKid} |-> HsmKeyPair("hsmA")]
    /\ quorum_approvals = EmptyMap
    /\ kms_result = NoKmsResult
    /\ kms_calls = [dd |-> 0, a |-> 0, b |-> 0]
    /\ kms_buffers = NoBuffers

\* TransparencyLog::get_root_hash
get_root_hash(tr) == IF Len(tr) = 0 THEN <<>> ELSE <<tr[1].hash>>

\* TransparencyLog::get_entry
get_entry(entries, id) == IF id < Len(entries) THEN <<entries[id + 1]>> ELSE <<>>

\* TransparencyLog::get_inclusion_proof
get_inclusion_proof(entries, tr, entry_id) == <<>>

\* Checkpoint_new that counts the entries below the newest
Checkpoint_new_stale_size(entries, root_hash, t) ==
    [tree_size |-> Len(entries) - 1, root_hash |-> root_hash, ts |-> t, ver |-> 1, signature |-> ""]

\* The Checkpoint built by create_checkpoint
Checkpoint_new(entries, root_hash, t) ==
    [tree_size |-> Len(entries), root_hash |-> root_hash, ts |-> t, ver |-> 1, signature |-> ""]

NoLogResult == [call |-> "none", ok |-> FALSE, val |-> 0, proof |-> <<>>]
NoTasks     == [t \in {} |-> 0]
NoSealed    == [state |-> "none"]
NoOpsResult == [call |-> "none"]
NoPdResult  == [call |-> "none"]
NoCosign    == [pc |-> "idle"]
NoQsResult  == [call |-> "none"]

\* The state outside the gateway and the KMS object: TransparencyLog::new()
\* has no checkpoint, no call is in flight, nothing has been sealed,
\* PolicyDistributor::new() has neither bundle, no cosignature was requested
AuxInit ==
    /\ checkpoints = <<>>
    /\ log_result = NoLogResult
    /\ dd_tasks = NoTasks
    /\ sealed = NoSealed
    /\ ops_result = NoOpsResult
    /\ gw_tasks = NoTasks
    /\ current_bundle = <<>>
    /\ next_bundle = <<>>
    /\ pd_result = NoPdResult
    /\ cosign = NoCosign
    /\ db = EmptyMap
    /\ qs_result = NoQsResult

\* main(): the AppState is built with empty maps and the KMS with its default
\* configuration.  No code path fills policy_cache; the handlers read it, so
\* they are also run over a cache that already holds one policy (the
\* cache.get(&policy_key) branch of the lookup).
Init ==
    /\ now = StartMs
    /\ nreq = 0
    /\ overflow_checks \in BOOLEAN
    /\ rate_limits = EmptyMap
    /\ replay_cache = EmptyMap
    /\ policy_cache \in PolicyStores
    /\ tlog = <<>>
    /\ tree = <<>>
    /\ resp = NoResp
    /\ AuxInit
    /\ KmsInit([DualControlConfig_default EXCEPT !.require_quorum = FALSE])

GwTicks == {60000, 300000}

Next ==
    \/ nreq < MaxReq /\ \E body \in Bodies : Verify(body)
    \/ nreq < MaxReq /\ \E body \in Bodies : Decrypt(body)
    \/ \E d \in GwTicks : Tick(d)

Spec == Init /\ [][Next]_vars

-----------------------------------------------------------------------------
(* The rate limiter under a burst: one client, one envelope, a fine clock *)

RateBodies == {Envelope_to_cbor(EnvGood)}
\* The instants at which the burst specification looks at the limiter
RateInstants == {StartMs + 50, StartMs + 500, StartMs + 1050, StartMs + 1500}

InitRate ==
    /\ now = StartMs
    /\ nreq = 0
    /\ overflow_checks \in BOOLEAN
    /\ rate_limits = EmptyMap
    /\ replay_cache = EmptyMap
    /\ policy_cache = EmptyMap
    /\ tlog = <<>>
    /\ tree = <<>>
    /\ resp = NoResp
    /\ AuxInit
    /\ KmsInit([DualControlConfig_default EXCEPT !.require_quorum = FALSE])

NextRate ==
    \/ nreq < MaxRateReq /\ \E body \in RateBodies : Verify(body)
    \/ \E t \in RateInstants : t > now /\ Tick(t - now)

SpecRate == InitRate /\ [][NextRate]_vars

-----------------------------------------------------------------------------
(* The KMS called directly, as its tests do *)

\* DualControlKms::dual_decrypt called by a client of the library
KmsDualDecrypt(kem_ciphertext, policy_id, tenant_id, path) ==
    /\ nreq' = nreq + 1
    /\ \E o \in dual_decrypt(config, cache, hsm_a_keys, quorum_approvals, kms_calls,
                             kem_ciphertext, policy_id, tenant_id, path, now) :
          /\ cache' = o.cache
          /\ kms_calls' = o.kms_calls
          /\ kms_buffers' = o.buffers
          /\ kms_result' = KmsCall("dual_decrypt",
                                   CacheKey(kem_ciphertext, policy_id, tenant_id, path), o.res)
    /\ UNCHANGED <<now, overflow_checks, gwVars, config, hsm_a_keys, quorum_approvals, auxVars>>

\* DualControlKms::add_approval
AddApproval(request_id, approver) ==
    /\ nreq' = nreq + 1
    /\ quorum_approvals' =
          [r \in DOMAIN quorum_approvals \cup {request_id} |->
              IF r = request_id
              THEN Append(IF r \in DOMAIN quorum_approvals THEN quorum_approvals[r] ELSE <<>>,
                          approver)
              ELSE quorum_approvals[r]]
    /\ kms_result' = KmsCall("add_approval", request_id, KmsOk(""))
    /\ UNCHANGED <<now, overflow_checks, gwVars, config, cache, hsm_a_keys, kms_calls,
                   kms_buffers, auxVars>>

\* <DualControlKms as KmsGate>::check_quorum
check_quorum(cfg, approvals, request_id) ==
    ApprovalCount(approvals, request_id) >= cfg.quorum_threshold

CheckQuorum(request_id) ==
    /\ nreq' = nreq + 1
    /\ kms_result' = KmsCall("check_quorum", request_id,
                             KmsOk(IF check_quorum(config, quorum_approvals, request_id)
                                   THEN "true" ELSE "false"))
    /\ UNCHANGED <<now, overflow_checks, gwVars, config, cache, hsm_a_keys,
                   quorum_approvals, kms_calls, kms_buffers, auxVars>>

KmsCts       == {KemCiphertext(KemPk("hsmA"), "r1"), KemCiphertext(KemPk("hsmA"), "r2"), "short"}
KmsTenant    == "aaaa1"
KmsPolicy    == "pppp1"
KmsPath      == "/pay"
KmsRids      == {RequestId(CacheKey(ct, KmsPolicy, KmsTenant, KmsPath)) : ct \in KmsCts \ {"short"}}
Approvers    == {"approver1", "approver2"}
KmsTicks     == {150000, 300000}

\* The configurations the KMS is constructed with: quorum of two as in
\* test_dual_control_with_quorum, and quorum disabled as in main(); the cache
\* holds one entry so that eviction happens
KmsConfigs ==
    {[DualControlConfig_default EXCEPT !.require_quorum = q, !.max_cache_entries = 1] :
        q \in BOOLEAN}

InitKms ==
    /\ now = StartMs
    /\ nreq = 0
    /\ overflow_checks \in BOOLEAN
    /\ rate_limits = EmptyMap
    /\ replay_cache = EmptyMap
    /\ policy_cache = EmptyMap
    /\ tlog = <<>>
    /\ tree = <<>>
    /\ resp = NoResp
    /\ AuxInit
    /\ \E cfg \in KmsConfigs : KmsInit(cfg)

NextKms ==
    \/ nreq < MaxKmsReq /\ \E ct \in KmsCts : KmsDualDecrypt(ct, KmsPolicy, KmsTenant, KmsPath)
    \/ nreq < MaxKmsReq /\ \E rid \in KmsRids, a \in Approvers : AddApproval(rid, a)
    \/ nreq < MaxKmsReq /\ \E rid \in KmsRids : CheckQuorum(rid)
    \/ \E d \in KmsTicks : Tick(d)

SpecKms == InitKms /\ [][NextKms]_vars

-----------------------------------------------------------------------------
(* The KMS with a cache of two entries, filled by dual_decrypt calls *)

EvictCts   == {KemCiphertext(KemPk("hsmA"), "r1"), KemCiphertext(KemPk("hsmA"), "r2")}
EvictPaths == {"/pay", "/get"}
EvictTicks == {150000, 300000}

\* Quorum is not required, so that every call derives a DEK and stores it
EvictConfig ==
    [DualControlConfig_default EXCEPT !.require_quorum = FALSE, !.max_cache_entries = 2]

InitEvict ==
    /\ now = StartMs
    /\ nreq = 0
    /\ overflow_checks \in BOOLEAN
    /\ rate_limits = EmptyMap
    /\ replay_cache = EmptyMap
    /\ policy_cache = EmptyMap
    /\ tlog = <<>>
    /\ tree = <<>>
    /\ resp = NoResp
    /\ AuxInit
    /\ KmsInit(EvictConfig)

NextEvict ==
    \/ nreq < MaxEvictReq /\ \E ct \in EvictCts, path \in EvictPaths :
          KmsDualDecrypt(ct, KmsPolicy, KmsTenant, path)
    \/ \E d \in EvictTicks : Tick(d)

SpecEvict == InitEvict /\ [][NextEvict]_vars

-----------------------------------------------------------------------------
(* The KMS called with identifiers of other lengths *)

IdsCt == KemCiphertext(KemPk("hsmA"), "r1")

\* (policy_id, tenant_id, path) as the envelopes of the gateway carry them,
\* with the boundary between tenant_id and path moved by one byte, and with
\* a tenant_id and a policy_id of three bytes
IdsArgs ==
    {<<"pppp1", "aaaa1", "/pay">>, <<"pppp1", "aaaa1/", "pay">>,
     <<"pppp1", "aaa", "/pay">>, <<"ppp", "aaaa1", "/pay">>}

IdsRids == {RequestId(CacheKey(IdsCt, a[1], a[2], a[3])) : a \in IdsArgs}

IdsConfigs == {[DualControlConfig_default EXCEPT !.require_quorum = q] : q \in BOOLEAN}

InitIds ==
    /\ now = StartMs
    /\ nreq = 0
    /\ overflow_checks \in BOOLEAN
    /\ rate_limits = EmptyMap
    /\ replay_cache = EmptyMap
    /\ policy_cache = EmptyMap
    /\ tlog = <<>>
    /\ tree = <<>>
    /\ resp = NoResp
    /\ AuxInit
    /\ \E cfg \in IdsConfigs : KmsInit(cfg)

NextIds ==
    \/ nreq < MaxIdsReq /\ \E a \in IdsArgs : KmsDualDecrypt(IdsCt, a[1], a[2], a[3])
    \/ nreq < MaxIdsReq /\ \E rid \in IdsRids, a \in Approvers : AddApproval(rid, a)

SpecIds == InitIds /\ [][NextIds]_vars

-----------------------------------------------------------------------------
(* The transparency log used on its own (transparency/src/lib.rs) *)

\* The entry of test_transparency_log, as a verify and as a decrypt receipt
LogEntries ==
    {[v |-> 1, ten |-> "tenant", typ |-> typ, ts |-> 1234567890, hdr_h |-> "00", sig_h |-> "01",
      kid |-> "btk/test/key/v1", pol |-> "policy", rc |-> 0] : typ \in {"verify", "decrypt"}}

\* TransparencyLog::append
LogAppendOp(entry) ==
    /\ Len(tlog) < MaxLogLen
    /\ tlog' = LogAppend(tlog, entry)
    /\ tree' = rebuild_tree(tlog')
    /\ log_result' = [call |-> "append", ok |-> TRUE, val |-> Len(tlog), proof |-> <<>>]
    /\ UNCHANGED <<now, nreq, overflow_checks, rate_limits, replay_cache, policy_cache, resp,
                   kmsVars, checkpoints, dd_tasks, sealed, ops_result, extVars>>

\* TransparencyLog::create_checkpoint
CreateCheckpoint ==
    /\ Len(checkpoints) < MaxCheckpoints
    /\ LET root_hash == get_root_hash(tree)
       IN  IF Len(root_hash) = 0
           THEN /\ log_result' = [call |-> "create_checkpoint", ok |-> FALSE, val |-> 0,
                                  proof |-> <<>>]
                /\ UNCHANGED checkpoints
           ELSE LET checkpoint == Checkpoint_new(tlog, root_hash[1], now)
                IN  /\ checkpoints' = Append(checkpoints, checkpoint)
                    /\ log_result' = [call |-> "create_checkpoint", ok |-> TRUE,
                                      val |-> checkpoint.tree_size, proof |-> <<>>]
    /\ UNCHANGED <<now, nreq, overflow_checks, gwVars, kmsVars, dd_tasks, sealed, ops_result, extVars>>

\* TransparencyLog::get_inclusion_proof
GetInclusionProof(entry_id) ==
    /\ LET proof == get_inclusion_proof(tlog, tree, entry_id)
       IN  log_result' = [call |-> "get_inclusion_proof", ok |-> Len(proof) = 1, val |-> entry_id,
                          proof |-> proof]
    /\ UNCHANGED <<now, nreq, overflow_checks, gwVars, kmsVars, checkpoints, dd_tasks, sealed,
                   ops_result, extVars>>

\* The entry ids an inclusion proof is asked for: leaf 3, and one past the end
ProofIds == {3, MaxLogLen}

InitLog ==
    /\ now = StartMs
    /\ nreq = 0
    /\ overflow_checks \in BOOLEAN
    /\ rate_limits = EmptyMap
    /\ replay_cache = EmptyMap
    /\ policy_cache = EmptyMap
    /\ tlog = <<>>
    /\ tree = <<>>
    /\ resp = NoResp
    /\ AuxInit
    /\ KmsInit([DualControlConfig_default EXCEPT !.require_quorum = FALSE])

NextLog ==
    \/ \E entry \in LogEntries : LogAppendOp(entry)
    \/ CreateCheckpoint
    \/ \E entry_id \in ProofIds : GetInclusionProof(entry_id)

SpecLog == InitLog /\ [][NextLog]_vars

-----------------------------------------------------------------------------
(* The SDK operations on one envelope: a client seals it, the network may   *)
(* change one of its fields, the server verifies and opens it               *)

SealTenants  == {"aaaa1", "bbbb1"}
SealPolicies == {"pppp1", "pppp2"}
SealPaths    == {"/pay", "/x"}
SealNonces   == {"nonce0000001", "nonce0000002"}
ServerKem    == "hsmA"

NotRun == [call |-> "none", ok |-> FALSE, err |-> "", plaintext |-> ""]

\* EnvelopeOps::encrypt_and_sign called by the client
Seal(payload, tenant_id, policy_id, path, hybrid, nonce, r) ==
    /\ sealed.state = "none"
    /\ LET e == encrypt_and_sign(payload, tenant_id, policy_id, path, KemPk(ServerKem),
                                 SigSk("client"), hybrid, now, nonce, r)
       IN  sealed' = [state |-> "sealed", payload |-> payload, r |-> r, env |-> e, orig |-> e,
                      tampered |-> "none"]
    /\ ops_result' = [verify |-> NotRun, open |-> NotRun]
    /\ UNCHANGED <<now, nreq, overflow_checks, gwVars, kmsVars, checkpoints, log_result, dd_tasks, extVars>>

\* The envelopes that differ from e in exactly one of the named fields
Modified(e, payload, r) ==
    LET dek == hkdf_sha256_derive(KemSecret(KemPk(ServerKem), r), e.tenant_id, e.policy_id)
        aad == Aad_to_cbor(EnvelopeAad(e))
    IN       {[field |-> "ct", env |-> [e EXCEPT !.ct = c]] :
                 c \in {aes_256_gcm_encrypt(dek, e.nonce, q, aad) : q \in Payloads \ {payload}}
                          \cup {e.ct \o "x"}}
        \cup {[field |-> "nonce", env |-> [e EXCEPT !.nonce = n]] :
                 n \in (SealNonces \cup {"short"}) \ {e.nonce}}
        \cup {[field |-> "aad_ext", env |-> [e EXCEPT !.aad_ext.required_algs = "other"]],
              [field |-> "aad_ext", env |-> [e EXCEPT !.aad_ext.device_attest_hash = <<"attest">>]]}
        \cup {[field |-> "algs.hybrid", env |-> [e EXCEPT !.algs.hybrid = ~e.algs.hybrid]]}
        \cup {[field |-> "tenant_id", env |-> [e EXCEPT !.tenant_id = x]] :
                 x \in SealTenants \ {e.tenant_id}}
        \cup {[field |-> "policy_id", env |-> [e EXCEPT !.policy_id = x]] :
                 x \in SealPolicies \ {e.policy_id}}
        \cup {[field |-> "path", env |-> [e EXCEPT !.path = x]] : x \in SealPaths \ {e.path}}
        \cup {[field |-> "ts_epoch_ms", env |-> [e EXCEPT !.ts_epoch_ms = e.ts_epoch_ms + 1]]}
        \cup {[field |-> "kem_ct", env |-> [e EXCEPT !.kem_ct = c]] :
                 c \in (WellFormedKemCts \cup {"short"}) \ {e.kem_ct}}

\* One field of the sealed envelope is changed in transit
Tamper(m) ==
    /\ sealed.state = "sealed" /\ sealed.tampered = "none"
    /\ sealed' = [sealed EXCEPT !.env = m.env, !.tampered = m.field]
    /\ ops_result' = [verify |-> NotRun, open |-> NotRun]
    /\ UNCHANGED <<now, nreq, overflow_checks, gwVars, kmsVars, checkpoints, log_result, dd_tasks, extVars>>

\* EnvelopeOps::verify called by the server with the client's public key
OpsVerify ==
    /\ sealed.state = "sealed"
    /\ ops_result' = [ops_result EXCEPT !.verify =
          IF EnvelopeOps_verify(sealed.env, ClientSigPk)
          THEN [call |-> "verify", ok |-> TRUE,  err |-> "", plaintext |-> ""]
          ELSE [call |-> "verify", ok |-> FALSE, err |-> "InvalidSignature", plaintext |-> ""]]
    /\ UNCHANGED <<now, nreq, overflow_checks, gwVars, kmsVars, checkpoints, log_result, dd_tasks,
                   sealed, extVars>>

\* EnvelopeOps::decrypt called by the server with its KEM secret key
OpsOpen ==
    /\ sealed.state = "sealed"
    /\ LET o == EnvelopeOps_decrypt(sealed.env, KemSk(ServerKem))
       IN  ops_result' = [ops_result EXCEPT !.open =
              [call |-> "open", ok |-> o.ok, err |-> o.err, plaintext |-> o.plaintext]]
    /\ UNCHANGED <<now, nreq, overflow_checks, gwVars, kmsVars, checkpoints, log_result, dd_tasks,
                   sealed, extVars>>

InitSeal ==
    /\ now = StartMs
    /\ nreq = 0
    /\ overflow_checks \in BOOLEAN
    /\ rate_limits = EmptyMap
    /\ replay_cache = EmptyMap
    /\ policy_cache = EmptyMap
    /\ tlog = <<>>
    /\ tree = <<>>
    /\ resp = NoResp
    /\ AuxInit
    /\ KmsInit([DualControlConfig_default EXCEPT !.require_quorum = FALSE])

NextSeal ==
    \/ \E payload \in Payloads, tenant_id \in SealTenants, policy_id \in SealPolicies,
          path \in SealPaths, hybrid \in BOOLEAN, nonce \in SealNonces, r \in KemRands :
            Seal(payload, tenant_id, policy_id, path, hybrid, nonce, r)
    \/ sealed.state = "sealed" /\ \E m \in Modified(sealed.orig, sealed.payload, sealed.r) : Tamper(m)
    \/ OpsVerify
    \/ OpsOpen

SpecSeal == InitSeal /\ [][NextSeal]_vars

-----------------------------------------------------------------------------
(* The gateway with a KMS that requires a quorum of two, serving a sealed   *)
(* envelope (spec scenario 5)                                               *)

QuorumBodies == {Envelope_to_cbor(EnvSealed), Envelope_to_cbor(EnvGood)}
QuorumRids   == {RequestId(CacheKey(e.kem_ct, e.policy_id, e.tenant_id, e.path)) : e \in {EnvSealed}}
QuorumTicks  == {20000}

InitQuorum ==
    /\ now = StartMs
    /\ nreq = 0
    /\ overflow_checks \in BOOLEAN
    /\ rate_limits = EmptyMap
    /\ replay_cache = EmptyMap
    /\ policy_cache = EmptyMap
    /\ tlog = <<>>
    /\ tree = <<>>
    /\ resp = NoResp
    /\ AuxInit
    /\ KmsInit([DualControlConfig_default EXCEPT !.require_quorum = TRUE, !.quorum_threshold = 2])

NextQuorum ==
    \/ nreq < MaxQuorumReq /\ \E body \in QuorumBodies : Decrypt(body)
    \/ nreq < MaxQuorumReq /\ \E rid \in QuorumRids, a \in Approvers : AddApproval(rid, a)
    \/ \E d \in QuorumTicks : Tick(d)

SpecQuorum == InitQuorum /\ [][NextQuorum]_vars

-----------------------------------------------------------------------------
(* dual_decrypt called by several tasks at once.  The call holds the read   *)
(* lock of the cache only for the check at its head, the locks of the HSM-A *)
(* key table and of the approvals inside get_k1 and get_k2, and the write   *)
(* lock of the cache for the final insert; other tasks run in between.      *)

Tasks == 1..MaxTasks

InFlight == {u \in DOMAIN dd_tasks : dd_tasks[u].pc # "done"}

TaskDone(t, res, buffers) ==
    /\ dd_tasks' = [dd_tasks EXCEPT ![t].pc = "done"]
    /\ kms_result' = KmsCall("dual_decrypt", dd_tasks[t].cache_key, res)
    /\ kms_buffers' = buffers

\* kms.rs 186-203: the cache key and the cache check under the read lock
DdStart(t, kem_ciphertext, policy_id, tenant_id, path) ==
    LET cache_key == CacheKey(kem_ciphertext, policy_id, tenant_id, path)
        hit       == CacheHit(cache, cache_key, now)
        short     == Len(tenant_id) < 4 \/ Len(policy_id) < 4
        res       == IF hit THEN KmsOk(cache[cache_key].key_material) ELSE KmsErr("panic")
    IN  /\ t \notin DOMAIN dd_tasks
        /\ t = Cardinality(DOMAIN dd_tasks) + 1
        /\ nreq' = nreq + 1
        /\ kms_calls' = [kms_calls EXCEPT !.dd = @ + 1]
        /\ dd_tasks' = [u \in DOMAIN dd_tasks \cup {t} |->
                          IF u # t THEN dd_tasks[u]
                          ELSE [pc |-> IF hit \/ short THEN "done" ELSE "get_k1",
                                kem_ciphertext |-> kem_ciphertext, policy_id |-> policy_id,
                                tenant_id |-> tenant_id, path |-> path,
                                cache_key |-> cache_key, k1 |-> "", dek |-> "",
                                peers |-> InFlight, miss |-> ~hit,
                                decapsulated |-> FALSE, stored |-> FALSE]]
        /\ kms_result' = IF hit \/ short THEN KmsCall("dual_decrypt", cache_key, res)
                         ELSE kms_result
        /\ kms_buffers' = IF hit \/ short THEN NoBuffers ELSE kms_buffers
        /\ UNCHANGED <<now, overflow_checks, gwVars, config, cache, hsm_a_keys, quorum_approvals,
                       checkpoints, log_result, sealed, ops_result, extVars>>

\* kms.rs 216-221: get_k1 under the read lock of the HSM-A key table
DdGetK1(t) ==
    /\ t \in DOMAIN dd_tasks /\ dd_tasks[t].pc = "get_k1"
    /\ LET k1 == get_k1(hsm_a_keys, dd_tasks[t].kem_ciphertext,
                        Kid(dd_tasks[t].tenant_id, dd_tasks[t].policy_id))
       IN  /\ kms_calls' = [kms_calls EXCEPT !.a = @ + 1]
           /\ IF k1.ok
              THEN /\ dd_tasks' = [dd_tasks EXCEPT ![t].pc = "get_k2", ![t].k1 = k1.val,
                                                   ![t].decapsulated = TRUE]
                   /\ UNCHANGED <<kms_result, kms_buffers>>
              ELSE TaskDone(t, k1, NoBuffers)
    /\ UNCHANGED <<now, nreq, overflow_checks, gwVars, config, cache, hsm_a_keys, quorum_approvals,
                   checkpoints, log_result, sealed, ops_result, extVars>>

\* kms.rs 223-246: get_k2 under the read lock of the approvals, then the DEK
DdGetK2(t) ==
    /\ t \in DOMAIN dd_tasks /\ dd_tasks[t].pc = "get_k2"
    /\ LET k2 == get_k2(config, quorum_approvals, RequestId(dd_tasks[t].cache_key),
                        dd_tasks[t].policy_id)
       IN  /\ kms_calls' = [kms_calls EXCEPT !.b = @ + 1]
           /\ IF k2.ok
              THEN /\ dd_tasks' = [dd_tasks EXCEPT
                          ![t].pc = "store",
                          ![t].dek = CombineDek(dd_tasks[t].k1, k2.val, dd_tasks[t].tenant_id,
                                                dd_tasks[t].policy_id, dd_tasks[t].path)]
                   /\ UNCHANGED <<kms_result, kms_buffers>>
              ELSE TaskDone(t, k2, ReturnEarly(Buffers("live", "unused", "unused")))
    /\ UNCHANGED <<now, nreq, overflow_checks, gwVars, config, cache, hsm_a_keys, quorum_approvals,
                   checkpoints, log_result, sealed, ops_result, extVars>>

\* kms.rs 248-272: eviction and insert under the write lock of the cache
DdStore(t) ==
    /\ t \in DOMAIN dd_tasks /\ dd_tasks[t].pc = "store"
    /\ LET cached == [expires_at   |-> now + config.cache_ttl_secs * MsPerSec,
                      key_material |-> dd_tasks[t].dek]
       IN  cache' \in CacheInsert(config, cache, dd_tasks[t].cache_key, cached, now)
    /\ dd_tasks' = [dd_tasks EXCEPT ![t].pc = "done", ![t].stored = TRUE]
    /\ kms_result' = KmsCall("dual_decrypt", dd_tasks[t].cache_key, KmsOk(dd_tasks[t].dek))
    /\ kms_buffers' = ZeroizeIntermediate(Buffers("live", "live", "live"))
    /\ UNCHANGED <<now, nreq, overflow_checks, gwVars, config, hsm_a_keys, quorum_approvals,
                   kms_calls, checkpoints, log_result, sealed, ops_result, extVars>>

ConcCts   == {KemCiphertext(KemPk("hsmA"), "r1"), KemCiphertext(KemPk("hsmA"), "r2")}
ConcTicks == {300000}

\* The KMS of main() (no quorum) with a cache of zero, one or two entries
ConcConfigs ==
    {[DualControlConfig_default EXCEPT !.require_quorum = FALSE, !.max_cache_entries = n] :
        n \in 0..2}

InitConc ==
    /\ now = StartMs
    /\ nreq = 0
    /\ overflow_checks \in BOOLEAN
    /\ rate_limits = EmptyMap
    /\ replay_cache = EmptyMap
    /\ policy_cache = EmptyMap
    /\ tlog = <<>>
    /\ tree = <<>>
    /\ resp = NoResp
    /\ AuxInit
    /\ \E cfg \in ConcConfigs : KmsInit(cfg)

NextConc ==
    \/ \E t \in Tasks, ct \in ConcCts : DdStart(t, ct, KmsPolicy, KmsTenant, KmsPath)
    \/ \E t \in Tasks : DdGetK1(t)
    \/ \E t \in Tasks : DdGetK2(t)
    \/ \E t \in Tasks : DdStore(t)
    \/ \E d \in ConcTicks : Tick(d)

SpecConc == InitConc /\ [][NextConc]_vars

-----------------------------------------------------------------------------
(* The gateway serving several requests at once.  main() runs the handlers  *)
(* as tasks of a multi-threaded runtime; a handler holds a lock only inside *)
(* the block or the call that takes it, so the steps of a handler are the   *)
(* critical sections, each together with the lock-free code that follows    *)
(* it.  The append to the log and the return of the response are separate   *)
(* steps: the log's write lock is released before the response is built.    *)

GwTaskIds == 1..MaxGwTasks

\* The handlers that have returned their response
AnsweredTasks == {u \in DOMAIN gw_tasks : gw_tasks[u].pc = "done"}

\* The requests clients send while others are in flight
GwRequests ==
    {[op |-> "verify", body |-> b] :
        b \in {Envelope_to_cbor(EnvGood), Envelope_to_cbor(EnvAhead), JunkBody}}
    \cup {[op |-> "decrypt", body |-> Envelope_to_cbor(e)] :
            e \in {EnvGood, EnvSealed, EnvNoKey, EnvBadKem}}

\* The variables no step of a handler writes
gwFixed == <<overflow_checks, policy_cache, config, hsm_a_keys, quorum_approvals, checkpoints,
             log_result, dd_tasks, sealed, ops_result, current_bundle, next_bundle, pd_result,
             cosign, db, qs_result>>

\* The handler of task t returns response r; internal is the error
\* decrypt_with_kms returned to it, if any
GwAnswer(t, r, internal) ==
    /\ gw_tasks' = [gw_tasks EXCEPT ![t].pc = "done", ![t].resp = r, ![t].internal = internal,
                                    ![t].answered_after = AnsweredTasks]
    /\ resp' = r

\* The handler of task t goes on to its next critical section
GwGoto(t, pc) ==
    /\ gw_tasks' = [gw_tasks EXCEPT ![t].pc = pc]
    /\ UNCHANGED resp

\* main.rs 118-129 (verify) and 271-297 (decrypt): the request is decoded;
\* decrypt reads the clock and checks the age of the envelope
GwStart(t, op, body) ==
    LET envelope == FromCbor(body)
        deadline == AddU64(envelope.ts_epoch_ms, DecryptMaxAgeMs)
        r  == IF ~Decodes(body) THEN Rejected(op, body, 400, "Invalid envelope format")
              ELSE IF op = "verify" THEN NoResp
              ELSE IF deadline.overflow /\ overflow_checks THEN Panicked(op, body)
              ELSE IF now > deadline.val THEN Rejected(op, body, 400, "Envelope too old")
              ELSE NoResp
        pc == IF r # NoResp THEN "done" ELSE IF op = "verify" THEN "rate" ELSE "cache"
    IN  /\ t \notin DOMAIN gw_tasks
        /\ t = Cardinality(DOMAIN gw_tasks) + 1
        /\ nreq' = nreq + 1
        /\ gw_tasks' = [u \in DOMAIN gw_tasks \cup {t} |->
                          IF u # t THEN gw_tasks[u]
                          ELSE [op |-> op, body |-> body, pc |-> pc, now_ms |-> now,
                                envelope |-> IF Decodes(body) THEN <<envelope>> ELSE <<>>,
                                index |-> -1, resp |-> r, internal |-> "",
                                k1 |-> "", dek |-> "",
                                started_after |-> AnsweredTasks,
                                answered_after |-> IF pc = "done" THEN AnsweredTasks ELSE {}]]
        /\ resp' = IF pc = "done" THEN r ELSE resp
        /\ UNCHANGED <<now, gwFixed, rate_limits, replay_cache, tlog, tree, cache, kms_result,
                       kms_calls, kms_buffers>>

\* main.rs 131-150: the token bucket under the write lock of rate_limits
GwRate(t) ==
    /\ t \in DOMAIN gw_tasks /\ gw_tasks[t].pc = "rate"
    /\ LET envelope == gw_tasks[t].envelope[1]
           rl       == RateLimit(rate_limits, RateKey("verify", envelope), now)
       IN  /\ rate_limits' = rl.rate_limits
           /\ IF ~rl.ok
              THEN GwAnswer(t, Rejected("verify", gw_tasks[t].body, 429, "Rate limit exceeded"), "")
              ELSE GwGoto(t, "replay")
    /\ UNCHANGED <<now, nreq, gwFixed, replay_cache, tlog, tree, cache, kms_result, kms_calls,
                   kms_buffers>>

\* GwReplay that lets a new signature pass without recording it
GwReplay_no_insert(t) ==
    /\ t \in DOMAIN gw_tasks /\ gw_tasks[t].pc = "replay"
    /\ LET envelope == gw_tasks[t].envelope[1]
           sig_hash == Sha256(envelope.sig)
           retained == ReplayRetain(replay_cache, now)
       IN  IF sig_hash \in DOMAIN retained
           THEN /\ replay_cache' = retained
                /\ GwAnswer(t, Rejected("verify", gw_tasks[t].body, 409, "Replay detected"), "")
           ELSE /\ replay_cache' = retained
                /\ GwGoto(t, "policy")
    /\ UNCHANGED <<now, nreq, gwFixed, rate_limits, tlog, tree, cache, kms_result, kms_calls,
                   kms_buffers>>

\* main.rs 152-180: the replay check under the write lock of replay_cache
GwReplay(t) ==
    /\ t \in DOMAIN gw_tasks /\ gw_tasks[t].pc = "replay"
    /\ LET envelope == gw_tasks[t].envelope[1]
           sig_hash == Sha256(envelope.sig)
           retained == ReplayRetain(replay_cache, now)
       IN  IF sig_hash \in DOMAIN retained
           THEN /\ replay_cache' = retained
                /\ GwAnswer(t, Rejected("verify", gw_tasks[t].body, 409, "Replay detected"), "")
           ELSE /\ replay_cache' = ReplayInsert(retained, sig_hash, now)
                /\ GwGoto(t, "policy")
    /\ UNCHANGED <<now, nreq, gwFixed, rate_limits, tlog, tree, cache, kms_result, kms_calls,
                   kms_buffers>>

\* main.rs 182-219: the policy under the read lock of policy_cache, then the
\* clock and the age of the envelope
GwPolicy(t) ==
    /\ t \in DOMAIN gw_tasks /\ gw_tasks[t].pc = "policy"
    /\ LET envelope == gw_tasks[t].envelope[1]
           policy   == LookupPolicy(policy_cache, envelope)
           deadline == AddU64(envelope.ts_epoch_ms, policy.max_age_ms)
       IN  IF deadline.overflow /\ overflow_checks
           THEN GwAnswer(t, Panicked("verify", gw_tasks[t].body), "")
           ELSE IF now > deadline.val
           THEN GwAnswer(t, Rejected("verify", gw_tasks[t].body, 400, "Envelope too old"), "")
           ELSE /\ gw_tasks' = [gw_tasks EXCEPT ![t].pc = "log", ![t].now_ms = now]
                /\ UNCHANGED resp
    /\ UNCHANGED <<now, nreq, gwFixed, rate_limits, replay_cache, tlog, tree, cache, kms_result,
                   kms_calls, kms_buffers>>

\* The log entry a handler appends for its request
GwEntry(task) ==
    IF task.op = "verify" THEN VerifyEntry(task.envelope[1], task.now_ms)
    ELSE DecryptEntry(task.envelope[1], task.now_ms)

\* GwLog that goes on to the response without appending
GwLog_no_append(t) ==
    /\ t \in DOMAIN gw_tasks /\ gw_tasks[t].pc = "log"
    /\ gw_tasks' = [gw_tasks EXCEPT ![t].pc = "respond", ![t].index = Len(tlog)]
    /\ UNCHANGED <<now, nreq, gwFixed, rate_limits, replay_cache, tlog, tree, resp, cache, kms_result,
                   kms_calls, kms_buffers>>

\* main.rs 221-246 (verify) and 301-332 (decrypt): the receipt is appended
\* under the write lock of the log
GwLog(t) ==
    /\ t \in DOMAIN gw_tasks /\ gw_tasks[t].pc = "log"
    /\ tlog' = LogAppend(tlog, GwEntry(gw_tasks[t]))
    /\ tree' = rebuild_tree(tlog')
    /\ gw_tasks' = [gw_tasks EXCEPT ![t].pc = "respond", ![t].index = Len(tlog)]
    /\ UNCHANGED <<now, nreq, gwFixed, rate_limits, replay_cache, resp, cache, kms_result,
                   kms_calls, kms_buffers>>

\* main.rs 248-264 (verify) and 334-344 (decrypt): the 200 response is built
\* and returned
GwRespond(t) ==
    /\ t \in DOMAIN gw_tasks /\ gw_tasks[t].pc = "respond"
    /\ LET task     == gw_tasks[t]
           envelope == task.envelope[1]
           age      == SubU64(task.now_ms, envelope.ts_epoch_ms)
           hdr_h    == Hex(GwEntry(task).hdr_h)
       IN  IF task.op = "verify"
           THEN IF age.overflow /\ overflow_checks
                THEN GwAnswer(t, Panicked("verify", task.body), "")
                ELSE GwAnswer(t, Accepted("verify", task.body, hdr_h, age.val), "")
           ELSE GwAnswer(t, Accepted("decrypt", task.body, hdr_h, 0), "")
    /\ UNCHANGED <<now, nreq, gwFixed, rate_limits, replay_cache, tlog, tree, cache, kms_result,
                   kms_calls, kms_buffers>>

\* The handler after decrypt_with_kms, answering a failure with the error
\* decrypt_with_kms returned as the reason
GwAfterDualDecrypt_reason(t, res) ==
    LET task   == gw_tasks[t]
        opened == decrypt_with_kms(task.envelope[1], res)
    IN  IF res.err = "panic" THEN GwAnswer(t, Panicked("decrypt", task.body), "panic")
        ELSE IF opened.ok
        THEN /\ gw_tasks' = [gw_tasks EXCEPT ![t].pc = "log", ![t].dek = ""]
             /\ UNCHANGED resp
        ELSE GwAnswer(t, Rejected("decrypt", task.body, 400, opened.err), opened.err)

\* dual_decrypt has returned res to decrypt_with_kms (kms_decrypt.rs 25-61),
\* which opens the payload and returns to the handler (main.rs 299, 346-356)
GwAfterDualDecrypt(t, res) ==
    LET task   == gw_tasks[t]
        opened == decrypt_with_kms(task.envelope[1], res)
    IN  IF res.err = "panic" THEN GwAnswer(t, Panicked("decrypt", task.body), "panic")
        ELSE IF opened.ok
        THEN /\ gw_tasks' = [gw_tasks EXCEPT ![t].pc = "log", ![t].dek = ""]
             /\ UNCHANGED resp
        ELSE GwAnswer(t, Rejected("decrypt", task.body, 400, "Decrypt failed"), opened.err)

\* The cache key of the dual_decrypt call of a decrypt handler
GwCacheKey(task) ==
    LET envelope == task.envelope[1]
    IN  CacheKey(envelope.kem_ct, envelope.policy_id, envelope.tenant_id, envelope.path)

\* kms.rs 186-220: the cache check of dual_decrypt under the read lock
GwCache(t) ==
    /\ t \in DOMAIN gw_tasks /\ gw_tasks[t].pc = "cache"
    /\ LET envelope  == gw_tasks[t].envelope[1]
           cache_key == GwCacheKey(gw_tasks[t])
           hit       == CacheHit(cache, cache_key, now)
           short     == Len(envelope.tenant_id) < 4 \/ Len(envelope.policy_id) < 4
           res       == IF hit THEN KmsOk(cache[cache_key].key_material) ELSE KmsErr("panic")
       IN  /\ kms_calls' = [kms_calls EXCEPT !.dd = @ + 1]
           /\ IF hit \/ short
              THEN /\ kms_result' = KmsCall("dual_decrypt", cache_key, res)
                   /\ kms_buffers' = NoBuffers
                   /\ GwAfterDualDecrypt(t, res)
              ELSE /\ UNCHANGED <<kms_result, kms_buffers>>
                   /\ GwGoto(t, "get_k1")
    /\ UNCHANGED <<now, nreq, gwFixed, rate_limits, replay_cache, tlog, tree, cache>>

\* kms.rs 221: get_k1 under the read lock of the HSM-A key table
GwGetK1(t) ==
    /\ t \in DOMAIN gw_tasks /\ gw_tasks[t].pc = "get_k1"
    /\ LET envelope == gw_tasks[t].envelope[1]
           k1 == get_k1(hsm_a_keys, envelope.kem_ct, Kid(envelope.tenant_id, envelope.policy_id))
       IN  /\ kms_calls' = [kms_calls EXCEPT !.a = @ + 1]
           /\ IF k1.ok
              THEN /\ gw_tasks' = [gw_tasks EXCEPT ![t].pc = "get_k2", ![t].k1 = k1.val]
                   /\ UNCHANGED <<resp, kms_result, kms_buffers>>
              ELSE /\ kms_result' = KmsCall("dual_decrypt", GwCacheKey(gw_tasks[t]), k1)
                   /\ kms_buffers' = NoBuffers
                   /\ GwAfterDualDecrypt(t, k1)
    /\ UNCHANGED <<now, nreq, gwFixed, rate_limits, replay_cache, tlog, tree, cache>>

\* kms.rs 224-246: get_k2 under the read lock of the approvals, then the DEK
GwGetK2(t) ==
    /\ t \in DOMAIN gw_tasks /\ gw_tasks[t].pc = "get_k2"
    /\ LET envelope == gw_tasks[t].envelope[1]
           k2 == get_k2(config, quorum_approvals, RequestId(GwCacheKey(gw_tasks[t])),
                        envelope.policy_id)
       IN  /\ kms_calls' = [kms_calls EXCEPT !.b = @ + 1]
           /\ IF k2.ok
              THEN /\ gw_tasks' = [gw_tasks EXCEPT
                          ![t].pc = "store", ![t].k1 = "",
                          ![t].dek = CombineDek(gw_tasks[t].k1, k2.val, envelope.tenant_id,
                                                envelope.policy_id, envelope.path)]
                   /\ UNCHANGED <<resp, kms_result, kms_buffers>>
              ELSE /\ kms_result' = KmsCall("dual_decrypt", GwCacheKey(gw_tasks[t]), k2)
                   /\ kms_buffers' = ReturnEarly(Buffers("live", "unused", "unused"))
                   /\ GwAfterDualDecrypt(t, k2)
    /\ UNCHANGED <<now, nreq, gwFixed, rate_limits, replay_cache, tlog, tree, cache>>

\* kms.rs 248-272: eviction and insert under the write lock of the cache;
\* dual_decrypt returns the DEK
GwStore(t) ==
    /\ t \in DOMAIN gw_tasks /\ gw_tasks[t].pc = "store"
    /\ LET cached == [expires_at   |-> now + config.cache_ttl_secs * MsPerSec,
                      key_material |-> gw_tasks[t].dek]
       IN  cache' \in CacheInsert(config, cache, GwCacheKey(gw_tasks[t]), cached, now)
    /\ kms_result' = KmsCall("dual_decrypt", GwCacheKey(gw_tasks[t]), KmsOk(gw_tasks[t].dek))
    /\ kms_buffers' = ZeroizeIntermediate(Buffers("live", "live", "live"))
    /\ GwAfterDualDecrypt(t, KmsOk(gw_tasks[t].dek))
    /\ UNCHANGED <<now, nreq, gwFixed, rate_limits, replay_cache, tlog, tree, kms_calls>>

GwConcTicks == {200000}

\* The KMS of main() (no quorum), and one that requires a quorum of two
GwConcConfigs ==
    {[DualControlConfig_default EXCEPT !.require_quorum = q] : q \in BOOLEAN}

\* No timestamp of GwRequests overflows the deadline or the age, so the two
\* builds answer alike; the release build is the one started
InitGwConc ==
    /\ now = StartMs
    /\ nreq = 0
    /\ overflow_checks = FALSE
    /\ rate_limits = EmptyMap
    /\ replay_cache = EmptyMap
    /\ policy_cache = EmptyMap
    /\ tlog = <<>>
    /\ tree = <<>>
    /\ resp = NoResp
    /\ AuxInit
    /\ \E cfg \in GwConcConfigs : KmsInit(cfg)

NextGwConc ==
    \/ \E t \in GwTaskIds, rq \in GwRequests : GwStart(t, rq.op, rq.body)
    \/ \E t \in GwTaskIds : GwRate(t)
    \/ \E t \in GwTaskIds : GwReplay(t)
    \/ \E t \in GwTaskIds : GwPolicy(t)
    \/ \E t \in GwTaskIds : GwLog(t)
    \/ \E t \in GwTaskIds : GwRespond(t)
    \/ \E t \in GwTaskIds : GwCache(t)
    \/ \E t \in GwTaskIds : GwGetK1(t)
    \/ \E t \in GwTaskIds : GwGetK2(t)
    \/ \E t \in GwTaskIds : GwStore(t)
    \/ \E d \in GwConcTicks : Tick(d)

SpecGwConc == InitGwConc /\ [][NextGwConc]_vars

-----------------------------------------------------------------------------
(* The handlers interleaved with a clock that advances while they run *)

\* A clock step shorter than every max age, so that a request that arrives
\* after it is still fresh
GwSmallTicks == {10000}

GwClockRequests ==
    {[op |-> op, body |-> Envelope_to_cbor(EnvGood)] : op \in {"verify", "decrypt"}}

\* The wall clock advances between two steps of the handlers
GwSmallTickStep(d) ==
    /\ now < StartMs + MaxSmallTicks * d
    /\ Tick(d)

NextGwClock ==
    \/ \E t \in GwTaskIds, rq \in GwClockRequests : GwStart(t, rq.op, rq.body)
    \/ \E t \in GwTaskIds : GwRate(t)
    \/ \E t \in GwTaskIds : GwReplay(t)
    \/ \E t \in GwTaskIds : GwPolicy(t)
    \/ \E t \in GwTaskIds : GwLog(t)
    \/ \E t \in GwTaskIds : GwRespond(t)
    \/ \E t \in GwTaskIds : GwCache(t)
    \/ \E t \in GwTaskIds : GwGetK1(t)
    \/ \E t \in GwTaskIds : GwGetK2(t)
    \/ \E t \in GwTaskIds : GwStore(t)
    \/ \E d \in GwSmallTicks : GwSmallTickStep(d)

SpecGwClock == InitGwConc /\ [][NextGwClock]_vars

-----------------------------------------------------------------------------
(* The policy distributor used on its own (policy_bundle.rs) *)

\* The distributor as one value
PdSelf == [current_bundle |-> current_bundle, next_bundle |-> next_bundle]

\* The variables no call on the distributor writes
pdFixed == <<nreq, overflow_checks, gwVars, kmsVars, checkpoints, log_result, dd_tasks, sealed,
             ops_result, gw_tasks, cosign, db, qs_result>>

\* The key pair of the policy signer the deployment trusts
PolicySignerId == "signer"

PdTenants     == {"tenant1", "tenant2"}
PdPolicyLists ==
    {<<BundlePolicy("tenant1", 30000)>>,
     <<BundlePolicy("tenant1", 60000), BundlePolicy("tenant1", 30000), BundlePolicy("tenant2", 30000)>>}

\* The bundles offered to the distributor: created when the process starts,
\* by the trusted signer or by someone else, for five minutes or for an hour
PdBundles ==
    {SignedPolicyBundle_create(policies, version, ttl_secs, "btk/policy-signer/v1", SigSk(id), StartMs) :
        policies \in PdPolicyLists, version \in 0..MaxBundleVersion, ttl_secs \in {300, 3600},
        id \in {PolicySignerId, "mallory"}}

\* PolicyDistributor::update_bundle
UpdateBundle(bundle) ==
    /\ LET self == update_bundle(PdSelf, bundle)
       IN  /\ current_bundle' = self.current_bundle
           /\ next_bundle' = self.next_bundle
    /\ pd_result' = [call |-> "update_bundle", bundle |-> bundle]
    /\ UNCHANGED <<now, pdFixed>>

\* PolicyDistributor::activate_next
ActivateNext ==
    /\ LET self == activate_next(PdSelf)
       IN  /\ current_bundle' = self.current_bundle
           /\ next_bundle' = self.next_bundle
    /\ pd_result' = [call |-> "activate_next", staged |-> Len(next_bundle) = 1]
    /\ UNCHANGED <<now, pdFixed>>

\* PolicyDistributor::get_policy
GetPolicy(tenant_id, policy_id) ==
    /\ pd_result' = [call |-> "get_policy", tenant_id |-> tenant_id, policy_id |-> policy_id,
                     found |-> get_policy(PdSelf, tenant_id, policy_id)]
    /\ UNCHANGED <<now, pdFixed, current_bundle, next_bundle>>

PdTicks == {300000}

InitPolicy ==
    /\ now = StartMs
    /\ nreq = 0
    /\ overflow_checks \in BOOLEAN
    /\ rate_limits = EmptyMap
    /\ replay_cache = EmptyMap
    /\ policy_cache = EmptyMap
    /\ tlog = <<>>
    /\ tree = <<>>
    /\ resp = NoResp
    /\ AuxInit
    /\ KmsInit([DualControlConfig_default EXCEPT !.require_quorum = FALSE])

NextPolicy ==
    \/ \E bundle \in PdBundles : UpdateBundle(bundle)
    \/ ActivateNext
    \/ \E tenant_id \in PdTenants : GetPolicy(tenant_id, "policy1")
    \/ \E d \in PdTicks : Tick(d)

SpecPolicy == InitPolicy /\ [][NextPolicy]_vars

-----------------------------------------------------------------------------
(* A cosignature request of the witness coordinator (witness.rs) *)

\* The variables the witness coordinator does not write
witFixed == <<now, nreq, overflow_checks, gwVars, kmsVars, checkpoints, log_result, dd_tasks,
              sealed, ops_result, gw_tasks, current_bundle, next_bundle, pd_result, db,
              qs_result>>

QuorumThresholds == 0..(Len(Witnesses) + 1)
CosignTreeSizes  == {7}
CosignRoots      == {"root7"}

\* Every answer some witness can give to some request
AllWitnessAnswers ==
    UNION {WitnessAnswers(Witnesses[i], tree_size, root_hash) :
              i \in 1..Len(Witnesses), tree_size \in CosignTreeSizes, root_hash \in CosignRoots}

\* WitnessCoordinator::new(witnesses, quorum) and the call of
\* request_cosignatures(tree_size, root_hash) up to its first request
CosignStart(quorum, tree_size, root_hash) ==
    /\ cosign.pc = "idle"
    /\ cosign' = [pc |-> "requesting", quorum_threshold |-> quorum, tree_size |-> tree_size,
                  root_hash |-> root_hash, signatures |-> <<>>, answers |-> <<>>,
                  result |-> [ok |-> FALSE, signatures |-> <<>>]]
    /\ UNCHANGED witFixed

\* One pass of the loop: the next witness answers, its signature is pushed
\* if request_single_signature returned Ok; after the last witness the
\* number of signatures is compared with the threshold
CosignRequest(answer) ==
    /\ cosign.pc = "requesting"
    /\ answer \in WitnessAnswers(Witnesses[Len(cosign.answers) + 1], cosign.tree_size,
                                 cosign.root_hash)
    /\ LET i          == Len(cosign.answers) + 1
           res        == request_single_signature(Witnesses[i], answer)
           signatures == IF res.ok THEN Append(cosign.signatures, res.sig) ELSE cosign.signatures
           last       == i = Len(Witnesses)
       IN  cosign' = [cosign EXCEPT
                         !.answers    = Append(@, answer),
                         !.signatures = signatures,
                         !.pc         = IF last THEN "done" ELSE "requesting",
                         !.result     = IF last THEN CosignResult(signatures, cosign.quorum_threshold)
                                        ELSE @]
    /\ UNCHANGED witFixed

InitWitness ==
    /\ now = StartMs
    /\ nreq = 0
    /\ overflow_checks \in BOOLEAN
    /\ rate_limits = EmptyMap
    /\ replay_cache = EmptyMap
    /\ policy_cache = EmptyMap
    /\ tlog = <<>>
    /\ tree = <<>>
    /\ resp = NoResp
    /\ AuxInit
    /\ KmsInit([DualControlConfig_default EXCEPT !.require_quorum = FALSE])

NextWitness ==
    \/ \E quorum \in QuorumThresholds, tree_size \in CosignTreeSizes, root_hash \in CosignRoots :
          CosignStart(quorum, tree_size, root_hash)
    \/ \E answer \in AllWitnessAnswers : CosignRequest(answer)

SpecWitness == InitWitness /\ [][NextWitness]_vars

-----------------------------------------------------------------------------
(* The persisted quorum approvals (crypto/kms_storage.rs) *)

\* s begins with the bytes of p
StartsWith(s, p) == Len(s) >= Len(p) /\ SubSeq(s, 1, Len(p)) = p

\* The key of an approval record and of the counter of a request id
ApprovalKey(request_id, approver) == "approval:" \o Hex(request_id) \o ":" \o approver
CountKey(request_id)              == "count:" \o Hex(request_id)

PersistedApproval(request_id, approver, timestamp) ==
    [request_id |-> request_id, approver |-> approver, timestamp |-> timestamp,
     signature |-> "sig5678"]

\* serde_json::to_vec of a PersistedApproval and count.to_le_bytes(), as the
\* values sled stores; from_slice::<PersistedApproval> fails on a counter
ApprovalValue(approval) == [json |-> <<approval>>, le |-> 0]
CountValue(count)       == [json |-> <<>>, le |-> count]

\* db.insert(key, value)
DbInsert(d, key, value) == [k \in DOMAIN d \cup {key} |-> IF k = key THEN value ELSE d[k]]

\* The keys db.scan_prefix(prefix) visits
ScanPrefix(d, prefix) == {k \in DOMAIN d : StartsWith(k, prefix)}

\* QuorumStorage::increment_approval_count
increment_approval_count(d, request_id) ==
    LET key == CountKey(request_id)
    IN  DbInsert(d, key, CountValue(IF key \in DOMAIN d THEN d[key].le + 1 ELSE 1))

\* QuorumStorage::add_approval
add_approval(d, approval) ==
    increment_approval_count(
        DbInsert(d, ApprovalKey(approval.request_id, approval.approver), ApprovalValue(approval)),
        approval.request_id)

\* QuorumStorage::get_approvals: the approvals under the prefix of request_id
get_approvals(d, request_id) ==
    {d[k].json[1] : k \in {k \in ScanPrefix(d, "approval:" \o Hex(request_id) \o ":") :
                              d[k].json # <<>>}}

\* QuorumStorage::get_approval_count
get_approval_count(d, request_id) ==
    IF CountKey(request_id) \in DOMAIN d THEN d[CountKey(request_id)].le ELSE 0

\* QuorumStorage::cleanup_old_approvals at time t: the db left behind and the
\* number removed; now - max_age_secs panics in a build with overflow checks
\* and wraps in one without
cleanup_old_approvals(d, max_age_secs, t, checks) ==
    LET cutoff == SubU64(NowSecs(t), max_age_secs)
        old    == {k \in ScanPrefix(d, "approval:") :
                      d[k].json # <<>> /\ d[k].json[1].timestamp < cutoff.val}
    IN  IF cutoff.overflow /\ checks
        THEN [panic |-> TRUE, db |-> d, removed |-> 0]
        ELSE [panic |-> FALSE, db |-> [k \in DOMAIN d \ old |-> d[k]],
              removed |-> Cardinality(old)]

\* The variables no call on the storage writes
qsFixed == <<overflow_checks, gwVars, kmsVars, checkpoints, log_result, dd_tasks, sealed,
             ops_result, gw_tasks, current_bundle, next_bundle, pd_result, cosign>>

StorageRids      == {"rid1", "rid2"}
StorageApprovers == {"approver1", "approver2"}
StorageMaxAges   == {0, 100, 3600}
StorageTicks     == {200000}

\* storage.add_approval(approval); the approver stamps it with the time
QsAddApproval(request_id, approver) ==
    /\ nreq < MaxStorageReq
    /\ nreq' = nreq + 1
    /\ db' = add_approval(db, PersistedApproval(request_id, approver, NowSecs(now)))
    /\ qs_result' = [call |-> "add_approval", request_id |-> request_id, removed |-> 0,
                     panic |-> FALSE]
    /\ UNCHANGED <<now, qsFixed>>

\* storage.cleanup_old_approvals(max_age_secs)
QsCleanup(max_age_secs) ==
    /\ nreq < MaxStorageReq
    /\ nreq' = nreq + 1
    /\ LET o == cleanup_old_approvals(db, max_age_secs, now, overflow_checks)
       IN  /\ db' = o.db
           /\ qs_result' = [call |-> "cleanup_old_approvals", request_id |-> "",
                            removed |-> o.removed, panic |-> o.panic]
    /\ UNCHANGED <<now, qsFixed>>

\* The wall clock advances by d milliseconds
QsTick(d) ==
    /\ now + d <= MaxNow
    /\ now' = now + d
    /\ UNCHANGED <<nreq, db, qs_result, qsFixed>>

InitStorage ==
    /\ now = StartMs
    /\ nreq = 0
    /\ overflow_checks \in BOOLEAN
    /\ rate_limits = EmptyMap
    /\ replay_cache = EmptyMap
    /\ policy_cache = EmptyMap
    /\ tlog = <<>>
    /\ tree = <<>>
    /\ resp = NoResp
    /\ AuxInit
    /\ KmsInit([DualControlConfig_default EXCEPT !.require_quorum = FALSE])

NextStorage ==
    \/ \E request_id \in StorageRids, approver \in StorageApprovers :
          QsAddApproval(request_id, approver)
    \/ \E max_age_secs \in StorageMaxAges : QsCleanup(max_age_secs)
    \/ \E d \in StorageTicks : QsTick(d)

SpecStorage == InitStorage /\ [][NextStorage]_vars

-----------------------------------------------------------------------------
(* Properties of the gateway handlers *)

\* The step of a handler that decoded its request
VerifyStep  == nreq' = nreq + 1 /\ resp'.op = "verify"  /\ Decodes(resp'.body)
DecryptStep == nreq' = nreq + 1 /\ resp'.op = "decrypt" /\ Decodes(resp'.body)

\* The replay record of a signature hash is present and younger than the window
SeenWithin(rc, k, t, window) == k \in DOMAIN rc /\ t - rc[k] < window

\* The envelope is inside the freshness window of policy p at time t, and its
\* timestamp is not ahead of the gateway clock
FreshAt(e, p, t) == e.ts_epoch_ms <= t /\ t <= e.ts_epoch_ms + p.max_age_ms

\* C1: verify answers OK (200), and logs a receipt, only for an envelope whose
\* signature verifies under the client's public key; an envelope whose
\* signature does not verify is rejected and no receipt is logged for it.
C1_VerifyOnlySigned ==
    /\ (resp.op = "verify" /\ Decodes(resp.body)) =>
          /\ resp.decision = "OK" => EnvelopeOps_verify(FromCbor(resp.body), ClientSigPk)
          /\ ~EnvelopeOps_verify(FromCbor(resp.body), ClientSigPk) =>
                (resp.decision = "REJECTED" /\ resp.status \in {400, 409, 429})
    /\ \A i \in DOMAIN tlog :
          tlog[i].typ = "verify" =>
             \E e \in Envelopes : Sha256(e.sig) = tlog[i].sig_h /\ EnvelopeOps_verify(e, ClientSigPk)

\* The fields of the envelope name the same tenant, policy, path and
\* algorithms as the policy (whose identifiers are the raw text or its hex form)
PolicyAgrees(p, e) ==
    /\ p.tenant_id \in {e.tenant_id, Hex(e.tenant_id)}
    /\ p.policy_id \in {e.policy_id, Hex(e.policy_id)}
    /\ p.path = e.path
    /\ p.required_algs = e.aad_ext.required_algs

C3_ReplaySuppression ==
    [][ (VerifyStep /\ resp'.status # 429) =>
          LET e    == FromCbor(resp'.body)
              k    == Sha256(e.sig)
              p    == LookupPolicy(policy_cache, e)
              seen == SeenWithin(replay_cache, k, now, ReplayWindowMs)
          IN  /\ \A x \in DOMAIN replay_cache' : now - replay_cache'[x] < ReplayWindowMs
              /\ \A x \in DOMAIN replay_cache :
                    now - replay_cache[x] < ReplayWindowMs =>
                       x \in DOMAIN replay_cache' /\ replay_cache'[x] = replay_cache[x]
              /\ seen => /\ resp'.status = 409
                         /\ resp'.reason = "Replay detected"
                         /\ tlog' = tlog
              /\ ~seen => /\ replay_cache'[k] = now
                          /\ resp'.status # 409
                          /\ FreshAt(e, p, now) =>
                                (resp'.status = 200 /\ resp'.decision = "OK"
                                   /\ Len(tlog') = Len(tlog) + 1)
      ]_vars

\* A second submission was answered 409 after the first was answered and logged
C3_Witness ==
    /\ resp.op = "verify" /\ resp.status = 409 /\ Decodes(resp.body)
    /\ \E i \in DOMAIN tlog :
          tlog[i].typ = "verify" /\ tlog[i].sig_h = Sha256(FromCbor(resp.body).sig)

\* C4: a replay record lives for the policy's replay_ttl_ms: a verify of an
\* envelope whose record is older than replay_ttl_ms is not rejected as a
\* replay, and succeeds if the envelope is still fresh.
C4_ReplayTtlFromPolicy ==
    [][ (VerifyStep /\ resp'.status # 429) =>
          LET e == FromCbor(resp'.body)
              k == Sha256(e.sig)
              p == LookupPolicy(policy_cache, e)
          IN  (k \in DOMAIN replay_cache /\ now - replay_cache[k] > p.replay_ttl_ms) =>
                 /\ resp'.status # 409
                 /\ FreshAt(e, p, now) => resp'.status = 200
      ]_vars

C6_DecryptAdmission ==
    [][ DecryptStep =>
          LET e     == FromCbor(resp'.body)
              k     == Sha256(e.sig)
              key   == RateKey("decrypt", e)
              seen  == \/ SeenWithin(replay_cache, k, now, ReplayWindowMs)
                       \/ \E i \in DOMAIN tlog :
                             tlog[i].sig_h = k /\ now - tlog[i].ts < ReplayWindowMs
              empty == key \in DOMAIN rate_limits /\ ~try_consume(rate_limits[key], 1, now).ok
          IN  /\ empty => (resp'.status = 429 /\ kms_calls' = kms_calls /\ tlog' = tlog)
              /\ (seen /\ ~empty) =>
                    (resp'.status = 409 /\ resp'.reason = "Replay detected"
                       /\ kms_calls' = kms_calls /\ tlog' = tlog)
      ]_vars

-----------------------------------------------------------------------------
(* Properties of the rate limiter *)

\* The time the first request of the burst was recorded
FirstSeen(e) == replay_cache[Sha256(e.sig)]

\* A request made at least wait ms after one that was answered 429 for the
\* same bucket is not answered 429
RefillAfter(wait) ==
    (VerifyStep /\ resp.status = 429 /\ resp.body = resp'.body
       /\ now - rate_limits[RateKey("verify", FromCbor(resp.body))].last_update >= wait)
    => resp'.status # 429

\* C7: for a bucket key never seen before, the 101st verify request issued
\* within one second of the first is answered 429 "Rate limit exceeded"
\* however the requests are spaced, and a request made 1 s after that succeeds.
C7_Burst101WithinSecond ==
    [][ /\ (VerifyStep /\ nreq = RateMaxTokens /\ now - FirstSeen(FromCbor(resp'.body)) < MsPerSec)
            => (resp'.status = 429 /\ resp'.reason = "Rate limit exceeded")
        /\ RefillAfter(MsPerSec)
      ]_vars

\* C7 as amended: the 101st request is answered 429 when it is issued before
\* one token has been refilled, i.e. less than 1/refill_rate seconds (100 ms)
\* after the first; a request made 1 s after a 429 is admitted.
C7_Burst101BeforeRefill ==
    [][ /\ (VerifyStep /\ nreq = RateMaxTokens
              /\ (now - FirstSeen(FromCbor(resp'.body))) * RateRefillRate < MsPerSec)
            => (resp'.status = 429 /\ resp'.reason = "Rate limit exceeded")
        /\ RefillAfter(MsPerSec)
      ]_vars

\* The 101st request of a burst was answered 429
C7_Witness ==
    /\ nreq = RateMaxTokens + 1
    /\ resp.op = "verify" /\ resp.status = 429
    /\ now - FirstSeen(FromCbor(resp.body)) > 0

-----------------------------------------------------------------------------
(* Properties of the dual-control KMS *)

DualDecryptStep == kms_calls'.dd = kms_calls.dd + 1 /\ kms_result'.call = "dual_decrypt"

\* An entry for the key is cached and has not expired at time t
Cached(c, key, t) == key \in DOMAIN c /\ c[key].expires_at > t

Approved(request_id) == ApprovalCount(quorum_approvals, request_id)

\* C8: with require_quorum and threshold T, a dual_decrypt that misses the
\* cache returns a DEK only if the approval list of its request id holds at
\* least T approvals; with fewer it fails, with "Insufficient quorum
\* approvals" once HSM-A has produced K1, and with T or more it succeeds then.
C8_QuorumGate ==
    [][ (DualDecryptStep /\ config.require_quorum /\ ~Cached(cache, kms_result'.arg, now)) =>
          LET n == Approved(RequestId(kms_result'.arg))
          IN  /\ kms_result'.ok => n >= config.quorum_threshold
              /\ n < config.quorum_threshold => ~kms_result'.ok
              /\ \A ct \in KmsCts :
                    (/\ kms_result'.arg = CacheKey(ct, KmsPolicy, KmsTenant, KmsPath)
                     /\ get_k1(hsm_a_keys, ct, Kid(KmsTenant, KmsPolicy)).ok) =>
                       IF n < config.quorum_threshold
                       THEN kms_result'.err = "KmsError(Insufficient quorum approvals)"
                       ELSE kms_result'.ok
      ]_vars

\* A derivation succeeded with exactly two approvals after one was refused
C8_Witness ==
    /\ config.require_quorum /\ config.quorum_threshold = 2
    /\ kms_result.call = "dual_decrypt" /\ kms_result.ok
    /\ Approved(RequestId(kms_result.arg)) = 2
    /\ kms_calls.b >= 2

Approvers_of(request_id) ==
    IF request_id \in DOMAIN quorum_approvals
    THEN {quorum_approvals[request_id][i] : i \in DOMAIN quorum_approvals[request_id]}
    ELSE {}

\* C9: K2 is released, and check_quorum answers true, only when at least
\* quorum_threshold distinct approvers have approved the request id.
C9_DistinctApprovers ==
    /\ (config.require_quorum /\ kms_result.call = "dual_decrypt" /\ kms_result.ok) =>
          Cardinality(Approvers_of(RequestId(kms_result.arg))) >= config.quorum_threshold
    /\ (kms_result.call = "check_quorum" /\ kms_result.val = "true") =>
          Cardinality(Approvers_of(kms_result.arg)) >= config.quorum_threshold

\* C10: a dual_decrypt whose key has an unexpired cache entry returns that
\* entry's DEK without a call of HSM-A or HSM-B and leaves the cache alone; an
\* entry whose expires_at is not after now is not returned (HSM-A is asked);
\* a successful derivation at time t caches its DEK until t + cache_ttl_secs.
C10_CacheHit ==
    [][ DualDecryptStep =>
          LET key == kms_result'.arg
          IN  /\ Cached(cache, key, now) =>
                    /\ kms_result'.ok /\ kms_result'.val = cache[key].key_material
                    /\ kms_calls'.a = kms_calls.a /\ kms_calls'.b = kms_calls.b
                    /\ cache' = cache
              /\ (key \in DOMAIN cache /\ cache[key].expires_at <= now) =>
                    kms_calls'.a = kms_calls.a + 1
              /\ (~Cached(cache, key, now) /\ kms_result'.ok) =>
                    /\ key \in DOMAIN cache'
                    /\ cache'[key].key_material = kms_result'.val
                    /\ cache'[key].expires_at = now + config.cache_ttl_secs * MsPerSec
      ]_vars

\* A repeat call was served from the cache: two calls, one decapsulation
C10_Witness ==
    /\ kms_result.call = "dual_decrypt" /\ kms_result.ok
    /\ kms_calls.dd = 2 /\ kms_calls.a = 1
    /\ Cached(cache, kms_result.arg, now)

-----------------------------------------------------------------------------
(* Properties of concurrent dual_decrypt calls *)

\* Two calls for the same cache key that ran at the same time and both found
\* no entry at their cache check
ConcurrentMisses(t, u) ==
    /\ t # u
    /\ dd_tasks[t].cache_key = dd_tasks[u].cache_key
    /\ u \in dd_tasks[t].peers
    /\ dd_tasks[t].miss /\ dd_tasks[u].miss

\* C11: among concurrent dual_decrypt calls with the same cache key that
\* start with no cached entry, at most one performs the HSM-A decapsulation
\* and at most one writes the cache entry of that key.
C11_ExactlyOnceDerivation ==
    \A t \in DOMAIN dd_tasks : \A u \in DOMAIN dd_tasks :
        ConcurrentMisses(t, u) =>
            /\ ~(dd_tasks[t].decapsulated /\ dd_tasks[u].decapsulated)
            /\ ~(dd_tasks[t].stored /\ dd_tasks[u].stored)

\* C12: the derivation cache never holds more than max_cache_entries entries.
C12_CacheBound ==
    Cardinality(DOMAIN cache) <= config.max_cache_entries

-----------------------------------------------------------------------------
(* Properties of the dual-control decrypt of a sealed envelope *)

\* C13: with require_quorum and threshold 2, decrypt of an envelope sealed by
\* encrypt_and_sign against the registered HSM-A key is answered 400 "Decrypt
\* failed" while no approval exists, and once two approvals exist for its
\* request id the DEK of dual_decrypt opens the ciphertext to the payload and
\* decrypt answers 200 OK.
C13_DualControlDecrypt ==
    [][ (DecryptStep /\ FromCbor(resp'.body) = EnvSealed /\ config.require_quorum
           /\ now <= EnvSealed.ts_epoch_ms + DecryptMaxAgeMs) =>
          LET e   == EnvSealed
              rid == RequestId(CacheKey(e.kem_ct, e.policy_id, e.tenant_id, e.path))
          IN  /\ (ApprovalCount(quorum_approvals, rid) = 0 /\ cache = EmptyMap) =>
                    (resp'.status = 400 /\ resp'.reason = "Decrypt failed")
              /\ ApprovalCount(quorum_approvals, rid) >= 2 =>
                    /\ kms_result'.ok
                    /\ aes_256_gcm_decrypt(kms_result'.val, e.nonce, e.ct,
                                           Aad_to_cbor(EnvelopeAad(e))).plaintext = "hello"
                    /\ resp'.status = 200 /\ resp'.decision = "OK"
      ]_vars

-----------------------------------------------------------------------------
(* Properties of sealing and opening *)

\* C14: opening a sealed envelope with the server's KEM secret key returns
\* exactly the payload that was sealed, for every payload, tenant, policy,
\* path and hybrid flag.
C14_SealOpenRoundTrip ==
    (sealed.state = "sealed" /\ sealed.tampered = "none" /\ ops_result.open.call = "open") =>
        /\ ops_result.open.ok
        /\ ops_result.open.plaintext = sealed.payload

\* An untouched envelope was opened (and verified)
C14_Witness ==
    /\ sealed.state = "sealed" /\ sealed.tampered = "none"
    /\ sealed.env.algs.hybrid /\ sealed.payload = "bye"
    /\ ops_result.open.ok /\ ops_result.verify.ok

\* C15: after a change of one of ct, nonce, aad_ext, algs.hybrid, tenant_id,
\* policy_id, path, ts_epoch_ms or kem_ct of a sealed envelope, verify returns
\* InvalidSignature or open returns AeadFailure; the changed envelope never
\* both verifies and opens.
C15_TamperResistance ==
    (sealed.state = "sealed" /\ sealed.tampered # "none"
        /\ ops_result.verify.call = "verify" /\ ops_result.open.call = "open") =>
        /\ ops_result.verify.err = "InvalidSignature" \/ ops_result.open.err = "AeadFailure"
        /\ ~(ops_result.verify.ok /\ ops_result.open.ok)

\* An envelope whose kem_ct was cut short was rejected by verify, and open
\* stopped before the AEAD
C15_Witness ==
    /\ sealed.state = "sealed" /\ sealed.tampered = "kem_ct" /\ sealed.env.kem_ct = "short"
    /\ ops_result.verify.err = "InvalidSignature"
    /\ ops_result.open.err = "InternalError"

EcdhSecrets == {"ecdh1", "ecdh2"}

\* C16: in a sealed envelope kem_pub_ephem is present exactly when
\* algs.hybrid is set, and a hybrid envelope is encrypted under a DEK derived
\* from both an ECDH secret and the KEM secret.
C16_HybridEphemeralKey ==
    (sealed.state = "sealed" /\ sealed.tampered = "none") =>
        LET e == sealed.env
        IN  /\ (Len(e.kem_pub_ephem) = 1) <=> e.algs.hybrid
            /\ e.algs.hybrid =>
                  \E ss_ecc \in EcdhSecrets :
                      e.ct = aes_256_gcm_encrypt(
                                derive_hybrid_dek(ss_ecc, KemSecret(KemPk(ServerKem), sealed.r),
                                                  e.tenant_id, e.policy_id, e.path),
                                e.nonce, sealed.payload, Aad_to_cbor(EnvelopeAad(e)))

-----------------------------------------------------------------------------
(* Properties of the transparency log *)

\* The largest power of two smaller than n (n >= 2)
RECURSIVE SplitPoint(_, _)
SplitPoint(n, k) == IF 2 * k < n THEN SplitPoint(n, 2 * k) ELSE k

\* The Merkle tree hash of RFC 6962 over the entries, in order
RECURSIVE MerkleTreeHash(_)
MerkleTreeHash(entries) ==
    IF Len(entries) = 1 THEN Sha256("00" \o LogEntry_to_json(entries[1]))
    ELSE LET k == SplitPoint(Len(entries), 1)
         IN  Sha256("01" \o MerkleTreeHash(SubSeq(entries, 1, k))
                        \o MerkleTreeHash(SubSeq(entries, k + 1, Len(entries))))

\* C17: after N >= 1 appends get_root_hash is the RFC 6962 Merkle tree hash of
\* the N leaves in append order (leaf hash H(0x00 || entry), interior hash
\* H(0x01 || left || right), an odd trailing node carried up unchanged); the
\* root is absent exactly when the log is empty.
C17_MerkleRoot ==
    /\ (Len(tlog) = 0) <=> (get_root_hash(tree) = <<>>)
    /\ Len(tlog) >= 1 => get_root_hash(tree) = <<MerkleTreeHash(tlog)>>

\* A log of five entries: the trailing leaf is carried up two levels
C17_Witness ==
    /\ Len(tlog) = 5
    /\ get_root_hash(tree) = <<MerkleTreeHash(tlog)>>
    /\ log_result.call = "append"

\* The root rebuilt from a leaf hash, its index, the tree size and a co-path
\* of sibling hashes, bottom up; "" when the path does not fit
RECURSIVE RootFromPath(_, _, _, _)
RootFromPath(h, idx, size, path) ==
    IF size = 1 THEN (IF Len(path) = 0 THEN h ELSE "")
    ELSE IF idx % 2 = 0 /\ idx + 1 = size
    THEN RootFromPath(h, idx \div 2, (size + 1) \div 2, path)
    ELSE IF Len(path) = 0 THEN ""
    ELSE RootFromPath(IF idx % 2 = 0 THEN Sha256("01" \o h \o Head(path))
                                     ELSE Sha256("01" \o Head(path) \o h),
                      idx \div 2, (size + 1) \div 2, Tail(path))

\* C18: for a log of N entries whose latest checkpoint covers them,
\* get_inclusion_proof(i) returns for every i < N a co-path from which the
\* root rebuilt with the leaf and interior prefixes is the checkpoint's
\* root_hash.
C18_InclusionProof ==
    (/\ log_result.call = "get_inclusion_proof"
     /\ log_result.val < Len(tlog)
     /\ Len(checkpoints) >= 1
     /\ checkpoints[Len(checkpoints)].tree_size = Len(tlog)) =>
        /\ log_result.ok
        /\ RootFromPath(Sha256("00" \o LogEntry_to_json(tlog[log_result.val + 1])),
                        log_result.val, Len(tlog), log_result.proof[1])
             = checkpoints[Len(checkpoints)].root_hash

\* C19: the log is append-only: append returns the number of entries appended
\* before it, and every entry stays what it was at its index under later
\* appends and checkpoints.
C19_AppendOnly ==
    [][ /\ Len(tlog') >= Len(tlog)
        /\ \A id \in 0..(Len(tlog) - 1) : get_entry(tlog', id) = get_entry(tlog, id)
        /\ tlog' # tlog =>
              /\ log_result'.call = "append" /\ log_result'.ok
              /\ log_result'.val = Len(tlog)
              /\ Len(tlog') = Len(tlog) + 1
              /\ get_entry(tlog', log_result'.val) # <<>>
      ]_vars

\* An append after a checkpoint returned index 2; the log holds both kinds of
\* entry
C19_Witness ==
    /\ log_result.call = "append" /\ log_result.val = 2
    /\ Len(checkpoints) >= 1
    /\ tlog[1] # tlog[3]

\* C20: checkpoints are monotone: each new checkpoint has the tree_size of
\* the log at its creation, which is not below that of the checkpoint before
\* it, and its root_hash is the Merkle tree hash of exactly that many leading
\* entries; nothing else changes the chain.
C20_CheckpointsMonotone ==
    [][ \/ checkpoints' = checkpoints
        \/ /\ Len(checkpoints') = Len(checkpoints) + 1
           /\ SubSeq(checkpoints', 1, Len(checkpoints)) = checkpoints
           /\ LET c == checkpoints'[Len(checkpoints')]
              IN  /\ c.tree_size = Len(tlog)
                  /\ c.tree_size >= 1
                  /\ c.root_hash = MerkleTreeHash(SubSeq(tlog', 1, c.tree_size))
                  /\ Len(checkpoints) >= 1 =>
                        checkpoints[Len(checkpoints)].tree_size <= c.tree_size
      ]_vars

\* Two checkpoints of different sizes
C20_Witness ==
    /\ Len(checkpoints) = 2
    /\ checkpoints[1].tree_size = 2 /\ checkpoints[2].tree_size = 3
    /\ checkpoints[1].root_hash # checkpoints[2].root_hash

-----------------------------------------------------------------------------
(* Properties of the gateway under concurrent requests *)

\* The handlers of two requests for one tenant, policy and path
SameScope(t, u) ==
    LET e == gw_tasks[t].envelope[1]
        f == gw_tasks[u].envelope[1]
    IN  e.tenant_id = f.tenant_id /\ e.policy_id = f.policy_id /\ e.path = f.path

\* The handler of task t has answered its request with decision OK
AnsweredOk(t, op) ==
    gw_tasks[t].op = op /\ gw_tasks[t].pc = "done" /\ gw_tasks[t].resp.decision = "OK"

\* The position in the log of the entry the handler of task t appended
EntryIndex(t) ==
    CHOOSE i \in 0..(Len(tlog) - 1) : tlog[i + 1] = GwEntry(gw_tasks[t])

\* C21 (as stated): for two verify requests of one tenant/policy/path that
\* are both answered OK, if the first returned its receipt before the second
\* was answered, the log index of the first request's entry is strictly
\* smaller than the index of the second's.
C21_ReceiptOrdering ==
    \A t \in DOMAIN gw_tasks, u \in DOMAIN gw_tasks :
        (/\ t # u
         /\ AnsweredOk(t, "verify") /\ AnsweredOk(u, "verify")
         /\ SameScope(t, u)
         /\ t \in gw_tasks[u].answered_after) =>
            EntryIndex(t) < EntryIndex(u)

\* C21 (amended): for two verify requests of one tenant/policy/path that are
\* both answered OK, if the first returned its receipt before the second
\* request was received, the log index of the first request's entry is
\* strictly smaller than the index of the second's.
C21_ReceiptOrderingAfterReturn ==
    \A t \in DOMAIN gw_tasks, u \in DOMAIN gw_tasks :
        (/\ t # u
         /\ AnsweredOk(t, "verify") /\ AnsweredOk(u, "verify")
         /\ SameScope(t, u)
         /\ t \in gw_tasks[u].started_after) =>
            EntryIndex(t) < EntryIndex(u)

\* Two verify requests of one scope answered OK, the second received after
\* the first had returned
C21_Witness ==
    \E t \in DOMAIN gw_tasks, u \in DOMAIN gw_tasks :
        /\ t # u
        /\ AnsweredOk(t, "verify") /\ AnsweredOk(u, "verify")
        /\ SameScope(t, u)
        /\ t \in gw_tasks[u].started_after
        /\ EntryIndex(t) = 0 /\ EntryIndex(u) = 1

\* C22: every verify or decrypt request answered with decision OK has had
\* its own entry appended to the transparency log before the response was
\* produced: the entry is in the log at the index the append returned, and
\* the receipt of the response names it.
C22_LoggedBeforeOk ==
    \A t \in DOMAIN gw_tasks :
        (gw_tasks[t].pc = "done" /\ gw_tasks[t].resp.decision = "OK") =>
            /\ gw_tasks[t].index >= 0 /\ gw_tasks[t].index < Len(tlog)
            /\ tlog[gw_tasks[t].index + 1] = GwEntry(gw_tasks[t])
            /\ tlog[gw_tasks[t].index + 1].typ = gw_tasks[t].op
            /\ gw_tasks[t].resp.status = 200
            /\ gw_tasks[t].resp.tlog_hash = Hex(tlog[gw_tasks[t].index + 1].hdr_h)

\* A verify and a decrypt request have both been answered OK
C22_Witness ==
    \E t \in DOMAIN gw_tasks, u \in DOMAIN gw_tasks :
        /\ AnsweredOk(t, "verify") /\ AnsweredOk(u, "decrypt")
        /\ Len(tlog) = 2

-----------------------------------------------------------------------------
(* Properties of the policy distributor *)

\* The distributor after a step
PdSelfNext == [current_bundle |-> current_bundle', next_bundle |-> next_bundle']

\* Every lookup gives the same answer before and after the step
LookupsUnchanged ==
    \A tenant_id \in PdTenants :
        get_policy(PdSelfNext, tenant_id, "policy1") = get_policy(PdSelf, tenant_id, "policy1")

\* C23: update_bundle with a bundle whose version is not strictly greater
\* than the version of the current bundle (0 when there is none) leaves the
\* staged and the current slot unchanged.
C23_StaleVersionRejected ==
    [][ (/\ pd_result'.call = "update_bundle"
         /\ pd_result'.bundle.version <= current_version(PdSelf)) =>
            UNCHANGED <<current_bundle, next_bundle>> ]_vars

\* update_bundle was called with a bundle of the current version while
\* another bundle was staged, and both slots are as they were
C23_Witness ==
    /\ pd_result.call = "update_bundle"
    /\ Len(current_bundle) = 1 /\ Len(next_bundle) = 1
    /\ pd_result.bundle.version = current_bundle[1].version
    /\ next_bundle[1] # pd_result.bundle

\* C24: a bundle enters the staged slot only if its signature verifies
\* under the signer's public key and now < not_after.
C24_StagedOnlyIfVerified ==
    [][ (next_bundle' # next_bundle /\ Len(next_bundle') = 1) =>
            /\ SignedPolicyBundle_verify(next_bundle'[1], SigPk(PolicySignerId))
            /\ NowSecs(now) < next_bundle'[1].not_after ]_vars

\* C25: activate_next with no staged bundle changes neither slot, and every
\* get_policy gives the answer it gave before.
C25_ActivateNoop ==
    [][ (pd_result'.call = "activate_next" /\ Len(next_bundle) = 0) =>
            /\ UNCHANGED <<current_bundle, next_bundle>>
            /\ LookupsUnchanged ]_vars

\* activate_next was called with nothing staged while a bundle was current
C25_Witness ==
    /\ pd_result.call = "activate_next" /\ ~pd_result.staged
    /\ Len(current_bundle) = 1 /\ Len(next_bundle) = 0
    /\ Len(get_policy(PdSelf, "tenant1", "policy1")) = 1

\* C26: update_bundle never changes the result of a get_policy; activate_next
\* with a staged bundle makes it the current one in one step, after which
\* the staged slot is empty and every lookup is answered from that bundle.
C26_LookupsReadCurrent ==
    [][ /\ pd_result'.call = "update_bundle" => LookupsUnchanged
        /\ (pd_result'.call = "activate_next" /\ Len(next_bundle) = 1) =>
              /\ current_bundle' = next_bundle
              /\ next_bundle' = <<>>
              /\ \A tenant_id \in PdTenants :
                    get_policy(PdSelfNext, tenant_id, "policy1") =
                        FindPolicy(next_bundle[1].policies, tenant_id, "policy1")
        /\ pd_result'.call = "get_policy" =>
              pd_result'.found =
                  IF Len(current_bundle) = 0 THEN <<>>
                  ELSE FindPolicy(current_bundle[1].policies, pd_result'.tenant_id,
                                  pd_result'.policy_id) ]_vars

\* A bundle with other policies is staged over the current one, and a lookup
\* is still answered from the current bundle
C26_Witness ==
    /\ Len(current_bundle) = 1 /\ Len(next_bundle) = 1
    /\ current_bundle[1].policies # next_bundle[1].policies
    /\ pd_result.call = "get_policy" /\ pd_result.tenant_id = "tenant1"
    /\ pd_result.found = <<current_bundle[1].policies[1]>>
    /\ pd_result.found # FindPolicy(next_bundle[1].policies, "tenant1", "policy1")

-----------------------------------------------------------------------------
(* Properties of the witness coordinator *)

\* The witnesses whose answer was a WitnessSignature that verifies under the
\* public key configured for that witness
VerifiedWitnesses ==
    {i \in 1..Len(cosign.answers) :
        /\ cosign.answers[i].kind = "signature"
        /\ dilithium3_verify(Witnesses[i].public_key, WitnessMessage(cosign.answers[i].sig),
                             cosign.answers[i].sig.signature)}

RECURSIVE VerifiedUpTo(_)
\* The verified signatures of the first n witnesses, in the order asked
VerifiedUpTo(n) ==
    IF n = 0 THEN <<>>
    ELSE IF n \in VerifiedWitnesses THEN Append(VerifiedUpTo(n - 1), cosign.answers[n].sig)
    ELSE VerifiedUpTo(n - 1)

\* C27: request_cosignatures asks every configured witness, whatever the
\* earlier ones answered, and succeeds if and only if at least
\* quorum_threshold of them returned a signature that verifies under the
\* witness's public key; the list it returns holds exactly those signatures.
C27_CosignQuorum ==
    cosign.pc = "done" =>
        /\ Len(cosign.answers) = Len(Witnesses)
        /\ cosign.result.ok <=> Cardinality(VerifiedWitnesses) >= cosign.quorum_threshold
        /\ cosign.result.ok => cosign.result.signatures = VerifiedUpTo(Len(Witnesses))

\* A request with threshold 1 succeeded although the first witness did not
\* respond and the second returned a signature made by someone else
C27_Witness ==
    /\ cosign.pc = "done" /\ cosign.quorum_threshold = 1 /\ cosign.result.ok
    /\ cosign.answers[1].kind = "send_error"
    /\ cosign.answers[2].kind = "signature" /\ 2 \notin VerifiedWitnesses
    /\ Len(cosign.result.signatures) = 1
    /\ cosign.result.signatures[1].witness_id = "witness3"

-----------------------------------------------------------------------------
(* Properties of the decrypt handler's failures *)

\* What a client sees of a response
ClientVisible(r) ==
    [status |-> r.status, decision |-> r.decision, reason |-> r.reason, tlog_hash |-> r.tlog_hash]

\* The decrypt requests decrypt_with_kms has failed
FailedDecrypts ==
    {t \in DOMAIN gw_tasks :
        /\ gw_tasks[t].op = "decrypt" /\ gw_tasks[t].pc = "done"
        /\ gw_tasks[t].internal \notin {"", "panic"}}

\* C28: whatever error decrypt_with_kms returned to the decrypt handler, the
\* response is 400 with decision REJECTED and reason "Decrypt failed" and
\* nothing else, so two requests that failed for different internal reasons
\* were answered with the same response.
C28_OpaqueDecryptFailures ==
    /\ \A t \in FailedDecrypts :
          ClientVisible(gw_tasks[t].resp) =
              [status |-> 400, decision |-> "REJECTED", reason |-> "Decrypt failed",
               tlog_hash |-> ""]
    /\ \A t, u \in FailedDecrypts :
          ClientVisible(gw_tasks[t].resp) = ClientVisible(gw_tasks[u].resp)

\* Two decrypt requests have failed, one because HSM-A holds no key for the
\* tenant and one on the AEAD tag
C28_Witness ==
    \E t, u \in FailedDecrypts :
        /\ gw_tasks[t].internal = "AeadFailure"
        /\ gw_tasks[u].internal \notin {"AeadFailure", "InternalError"}
        /\ gw_tasks[t].resp.reason = "Decrypt failed"
        /\ gw_tasks[u].resp.reason = "Decrypt failed"

-----------------------------------------------------------------------------
(* Properties of the errors of opening and of the buffers of dual_decrypt *)

\* C29: every failure of EnvelopeOps::decrypt is the error AeadFailure,
\* whether the KEM ciphertext is malformed, the nonce is not 12 bytes long
\* or the AEAD tag does not check.
C29_OpenFailsWithAeadFailure ==
    (sealed.state = "sealed" /\ ops_result.open.call = "open" /\ ~ops_result.open.ok) =>
        ops_result.open.err = "AeadFailure"

\* C30: when dual_decrypt has returned, with a DEK or with an error, none
\* of the buffers that held K1, K2 and K1 || K2 still holds key material.
C30_BuffersOverwrittenOnReturn ==
    kms_result.call = "dual_decrypt" =>
        /\ kms_buffers.k1 # "live"
        /\ kms_buffers.k2 # "live"
        /\ kms_buffers.combined # "live"

-----------------------------------------------------------------------------
(* Properties of the eviction of the KMS cache *)

\* A dual_decrypt call that missed the cache, derived a DEK and stored it
CacheInsertStep ==
    /\ nreq' = nreq + 1
    /\ kms_result'.call = "dual_decrypt" /\ kms_result'.ok
    /\ ~CacheHit(cache, kms_result'.arg, now)

\* The entries other than the inserted key that the insert removed
RemovedByInsert == (DOMAIN cache \ {kms_result'.arg}) \ DOMAIN cache'

ExpiredEntries == {k \in DOMAIN cache : cache[k].expires_at <= now}

CacheFull == Cardinality(DOMAIN cache) >= config.max_cache_entries

-----------------------------------------------------------------------------
(* Properties of the persisted quorum approvals *)

\* C32: after any sequence of add_approval and cleanup_old_approvals calls,
\* get_approval_count(rid) is the number of approvals get_approvals(rid)
\* returns, for every request id.
C32_CountMatchesRecords ==
    \A request_id \in StorageRids :
        get_approval_count(db, request_id) = Cardinality(get_approvals(db, request_id))

-----------------------------------------------------------------------------
(* Properties of dual_decrypt over its identifiers *)

\* C33: dual_decrypt ends in a DEK or an error for every tenant_id and
\* policy_id, those shorter than four bytes included; it never panics.
C33_NoPanicOnShortIds ==
    kms_result.call = "dual_decrypt" => kms_result.err # "panic"

\* The results a derivation for the four arguments returns when nothing is
\* cached
FreshDerivation(kem_ciphertext, policy_id, tenant_id, path) ==
    {o.res : o \in dual_decrypt(config, EmptyMap, hsm_a_keys, quorum_approvals, kms_calls,
                                kem_ciphertext, policy_id, tenant_id, path, now)}

\* C34: the DEK a dual_decrypt call returns for (kem_ct, policy_id,
\* tenant_id, path) is the DEK a fresh derivation for those four arguments
\* returns, whatever calls came before it.
C34_CacheTransparent ==
    [][\A a \in IdsArgs :
          (KmsDualDecrypt(IdsCt, a[1], a[2], a[3]) /\ kms_result'.ok) =>
              \E fresh \in FreshDerivation(IdsCt, a[1], a[2], a[3]) :
                  fresh.ok /\ fresh.val = kms_result'.val]_vars

-----------------------------------------------------------------------------
(* Properties of the handlers' arithmetic on timestamps *)

\* C35: every verify and decrypt request ends in a response, never in a
\* panic of the handler, and an age_ms that is reported is the difference
\* now_ms - ts_epoch_ms of a timestamp that is not later than the clock, so
\* it is at most the clock value.
C35_AgeWellFormed ==
    resp.op \in {"verify", "decrypt"} =>
        /\ resp.reason # "panic"
        /\ resp.age_ms <= now

-----------------------------------------------------------------------------
(* Properties of the log under concurrent handlers *)

\* C36: under any interleaving of verify and decrypt handlers the ts fields
\* of the log entries are non-decreasing in index order.
C36_LogTimestampsOrdered ==
    \A i \in 1..Len(tlog) : \A j \in 1..Len(tlog) :
        i < j => tlog[i].ts <= tlog[j].ts

-----------------------------------------------------------------------------
(* Properties of the versions of the policy distributor *)

\* C37: a staged bundle has a version strictly greater than the version of
\* the current bundle (0 when there is none); the version of the current
\* bundle never decreases and strictly increases whenever activation
\* replaces the current bundle.
C37_VersionsIncrease ==
    [][ /\ Len(next_bundle') = 1 => next_bundle'[1].version > current_version(PdSelfNext)
        /\ current_version(PdSelfNext) >= current_version(PdSelf)
        /\ current_bundle' # current_bundle =>
              /\ pd_result'.call = "activate_next"
              /\ current_version(PdSelfNext) > current_version(PdSelf) ]_vars

\* Version 1 is current and update_bundle has just staged version 2
C37_Witness ==
    /\ pd_result.call = "update_bundle" /\ pd_result.bundle.version = 2
    /\ Len(current_bundle) = 1 /\ current_bundle[1].version = 1
    /\ next_bundle = <<pd_result.bundle>>

-----------------------------------------------------------------------------
(* Properties of the checkpoint the witnesses sign *)

\* C38: every WitnessSignature request_cosignatures(tree_size, root_hash)
\* returns carries the requested tree_size and root_hash; a response that
\* validly signs another tree size or root is not counted.
C38_SignaturesForRequestedCheckpoint ==
    (cosign.pc = "done" /\ cosign.result.ok) =>
        \A i \in 1..Len(cosign.result.signatures) :
            /\ cosign.result.signatures[i].tree_size = cosign.tree_size
            /\ cosign.result.signatures[i].root_hash = cosign.root_hash

-----------------------------------------------------------------------------
(* Properties of what a request leaves in the log *)

\* C39: a verify or decrypt request answered with decision OK appends
\* exactly one entry to the transparency log, and a request that ends in any
\* other way leaves the log as it was.
C39_AppendOnlyOnOk ==
    [][ nreq' = nreq + 1 =>
            IF resp'.decision = "OK"
            THEN Len(tlog') = Len(tlog) + 1 /\ SubSeq(tlog', 1, Len(tlog)) = tlog
            ELSE tlog' = tlog ]_vars

-----------------------------------------------------------------------------
(* Properties of the replay check under concurrent handlers *)

\* The verify requests that carry the signature bytes sig
VerifiesOf(sig) ==
    {t \in DOMAIN gw_tasks :
        /\ gw_tasks[t].op = "verify" /\ Len(gw_tasks[t].envelope) = 1
        /\ gw_tasks[t].envelope[1].sig = sig}

\* The signature bytes some verify request carries
VerifiedSigs ==
    {gw_tasks[t].envelope[1].sig :
        t \in {t \in DOMAIN gw_tasks : gw_tasks[t].op = "verify" /\ Len(gw_tasks[t].envelope) = 1}}

\* C40: while all requests have arrived within one replay window, among the
\* verify requests that carry the same signature bytes at most one is
\* answered 200 OK, at most one has passed the replay check, and at most
\* one verify entry with that signature hash is in the log.
C40_OneAcceptedPerSignature ==
    now - StartMs < ReplayWindowMs =>
        \A sig \in VerifiedSigs :
            /\ Cardinality({t \in VerifiesOf(sig) : gw_tasks[t].resp.status = 200}) <= 1
            /\ Cardinality({t \in VerifiesOf(sig) :
                               gw_tasks[t].pc \in {"policy", "log", "respond"}
                               \/ gw_tasks[t].resp.status = 200}) <= 1
            /\ Cardinality({i \in DOMAIN tlog :
                               tlog[i].typ = "verify" /\ tlog[i].sig_h = Sha256(sig)}) <= 1

\* Two verify requests with the same signature ran concurrently; one was
\* answered 200 OK and logged, the other 409
C40_Witness ==
    \E t \in DOMAIN gw_tasks, u \in DOMAIN gw_tasks :
        /\ t # u /\ gw_tasks[t].body = gw_tasks[u].body
        /\ gw_tasks[t].op = "verify" /\ gw_tasks[u].op = "verify"
        /\ gw_tasks[t].pc = "done" /\ gw_tasks[u].pc = "done"
        /\ t \notin gw_tasks[u].started_after /\ u \notin gw_tasks[t].started_after
        /\ gw_tasks[t].resp.status = 200 /\ gw_tasks[u].resp.status = 409
        /\ Len(tlog) = 1

====
